---- MODULE Spec2Model ----
(***************************************************************************)
(* A model of tinman's session subsystem: the data serializers             *)
(* (tinman/serializers.py), the session adapters (tinman/session/) and the *)
(* request integration (tinman/handlers/session.py).                       *)
(*                                                                         *)
(* Python values are records tagged by their type in field t.  A mapping   *)
(* (dict) is a function whose domain is its key set.  A call that raises   *)
(* is an outcome of the operator that models it: the field "raised" names  *)
(* the exception, "" when the call returned.                               *)
(***************************************************************************)
EXTENDS Integers, Sequences, FiniteSets, TLC

VARIABLES
    cfg,    \* the application's session settings (fixed after start-up)
    now,    \* wall clock, whole seconds
    files,  \* file backend: session id -> file in the storage directory
    redis,  \* key-value backend: session id -> key "sess:<id>"
    ad,     \* adapter objects held by application code
    op,     \* the last adapter call made: its name, adapter and outcome
    steps,  \* number of calls made so far
    minted, \* number of session ids created by uuid4 so far
    sz,     \* a serializer call sequence: input, bytes and output
    req,    \* the requests being handled (SessionRequestHandler objects)
    fault,  \* the failure the storage backends are in, "" when they work
    dirs,   \* the directories that exist on the filesystem
    legacy, \* tinman/session.py: the Session class, its objects and its
            \* session directory
    eq,     \* two container objects and the outcome of comparing them
    wl,     \* a request to a method decorated with whitelisted
    attrs,  \* the application's Attributes object
    mq,     \* RabbitMQRequestHandler: connection, channel and messages
    wk,     \* worker processes sharing the session directory
    ctl     \* the Controller and its child processes during stop()

\* The session subsystem, and the other components of the application
session == <<cfg, now, files, redis, ad, op, steps, minted, sz, req,
             fault, dirs, legacy>>

others == <<eq, wl, attrs, mq, wk, ctl>>

vars == <<session, others>>

\* A component that is not in use
Off == [phase |-> "off"]

OthersOff ==
    /\ eq = Off
    /\ wl = Off
    /\ attrs = Off
    /\ mq = Off
    /\ wk = Off
    /\ ctl = Off

---------------------------------------------------------------------------
(* Bounds *)

MaxTime == 2
MaxSteps == 3
Duration == 2

\* Messages published and connections made by the RabbitMQ handlers
MaxMsgs == 3

MaxConns == 3

\* Steps taken by the worker processes
MaxWork == 4

\* Session adapters constructed in one application
MaxBuilt == 3

\* The clock of a session's life stops here
MaxLife == 4

\* Requests made on one session
MaxRequests == 4

\* File session adapters constructed by one worker process
MaxSweeps == 2

\* The clock of the controller stops here (quarter seconds)
MaxClock == 12

\* controller.py: MAX_SHUTDOWN_WAIT, in seconds
MAX_SHUTDOWN_WAIT == 2

\* controller.py: SHUTDOWN_SLEEP_INTERVAL is 0.25 s, the unit of the
\* controller's clock: this many to the second
SleepsPerSecond == 4

---------------------------------------------------------------------------
(* Python values *)

Str(s) == [t |-> "str", s |-> s]

Num(n) == [t |-> "num", n |-> n]

Bool(b) == [t |-> "bool", b |-> b]

Dt(sec, usec) == [t |-> "dt", sec |-> sec, usec |-> usec]

None == [t |-> "none"]

Map(m) == [t |-> "map", m |-> m]

EmptyDict == [k \in {} |-> None]

\* bool(value): Python truthiness, as used by "if not ..." and "x or y"
Truthy(v) ==
    CASE v.t = "none" -> FALSE
      [] v.t = "str"  -> v.s # ""
      [] v.t = "num"  -> v.n # 0
      [] v.t = "bool" -> v.b
      [] v.t = "map"  -> DOMAIN v.m # {}
      [] OTHER        -> TRUE

\* dict.get(key): the value, None when the key is absent
DictGet(d, key) == IF key \in DOMAIN d THEN d[key] ELSE None

\* d[key] = value
DictSet(d, key, value) ==
    [k \in DOMAIN d \cup {key} |-> IF k = key THEN value ELSE d[k]]

\* del d[key]
DictDel(d, key) == [k \in DOMAIN d \ {key} |-> d[k]]

---------------------------------------------------------------------------
(* tinman/serializers.py *)

SerializerNames == {"pickle", "json", "msgpack"}

\* datetime.strftime('%s'): the epoch seconds as a decimal string; the
\* microseconds are not part of the format
StrftimeS(d) == ToString(d.sec)

\* float(s) of a decimal string as strftime('%s') writes it
ParseSeconds(s) ==
    IF \E n \in 0..(MaxTime + 1) : ToString(n) = s
    THEN CHOOSE n \in 0..(MaxTime + 1) : ToString(n) = s
    ELSE -1

DatetimeTag(value) == Map([type |-> Str("datetime"), value |-> value])

\* Serializer._serialize_datetime: rewrites the caller's dict in place and
\* returns it
SerializeDatetime(data) ==
    [k \in DOMAIN data |->
        IF data[k].t = "dt" THEN DatetimeTag(Str(StrftimeS(data[k])))
        ELSE data[k]]

\* Variant: any mapping with a 'type' key is taken for a timestamp
IsTaggedAnyType(v) ==
    /\ v.t = "map"
    /\ "type" \in DOMAIN v.m

\* isinstance(v, dict) and v.get('type') == 'datetime'
IsTagged(v) ==
    /\ v.t = "map"
    /\ "type" \in DOMAIN v.m
    /\ v.m["type"] = Str("datetime")

\* datetime.datetime.fromtimestamp(x): defined for numbers only
FromTimestampRaises(v) ==
    IF "value" \notin DOMAIN v.m THEN "KeyError"
    ELSE IF v.m["value"].t \in {"num", "bool"} THEN ""
    ELSE "TypeError"

FromTimestamp(x) ==
    IF x.t = "num" THEN Dt(x.n, 0) ELSE Dt(IF x.b THEN 1 ELSE 0, 0)

\* Serializer._deserialize_datetime
DeserializeDatetime(data) ==
    LET bad == {k \in DOMAIN data :
                   IsTagged(data[k]) /\ FromTimestampRaises(data[k]) # ""}
    IN  IF bad # {}
        THEN [raised |-> FromTimestampRaises(data[CHOOSE k \in bad : TRUE]),
              data |-> EmptyDict]
        ELSE [raised |-> "",
              data |-> [k \in DOMAIN data |->
                          IF IsTagged(data[k])
                          THEN FromTimestamp(data[k].m["value"])
                          ELSE data[k]]]

\* The stored byte string: the format that wrote it and the mapping it
\* encodes.  EmptyBytes is the zero-length string.
Bytes(fmt, m) == [fmt |-> fmt, m |-> m]

EmptyBytes == [fmt |-> "empty"]

\* Pickle.serialize / JSON.serialize / MsgPack.serialize
Serialize(s, data) == Bytes(s, SerializeDatetime(data))

\* Pickle.deserialize / JSON.deserialize / MsgPack.deserialize
Deserialize(s, bytes) ==
    IF bytes = EmptyBytes
    THEN IF s = "pickle" THEN [raised |-> "", data |-> EmptyDict]
         ELSE [raised |-> "ValueError", data |-> EmptyDict]
    ELSE IF bytes.fmt # s
    THEN [raised |-> "ValueError", data |-> EmptyDict]
    ELSE DeserializeDatetime(bytes.m)

---------------------------------------------------------------------------
(* A serializer used on its own: serialize(data) then deserialize(bytes). *)

SerValues ==
    { Str("en"), Str("datetime"), Num(1), Bool(TRUE), None,
      Dt(1, 0), Dt(2, 5),
      Map([type |-> Str("other")]), Map([name |-> Str("x")]),
      DatetimeTag(Num(1)) }

SerKeys == {"k", "type"}

SerInputs ==
    UNION { [ks -> SerValues] : ks \in (SUBSET SerKeys) }

NoSz == [phase |-> "off"]

SzInit ==
    \E s \in SerializerNames, d \in SerInputs :
        sz = [phase |-> "input", s |-> s, input |-> d, mem |-> d,
              bytes |-> EmptyBytes, raised |-> "", out |-> EmptyDict]

\* bytes = serializer.serialize(mem)
SzSerialize ==
    /\ sz.phase = "input"
    /\ sz' = [sz EXCEPT !.phase = "serialized",
                        !.mem = SerializeDatetime(sz.mem),
                        !.bytes = Serialize(sz.s, sz.mem)]
    /\ UNCHANGED <<cfg, now, files, redis, ad, op, steps, minted, req, fault, dirs, legacy, others>>

\* out = serializer.deserialize(bytes)
SzDeserialize ==
    /\ sz.phase = "serialized"
    /\ LET r == Deserialize(sz.s, sz.bytes)
       IN  sz' = [sz EXCEPT !.phase = "done", !.raised = r.raised,
                            !.out = r.data]
    /\ UNCHANGED <<cfg, now, files, redis, ad, op, steps, minted, req, fault, dirs, legacy, others>>

---------------------------------------------------------------------------
(* Storage *)

Ids == {"X"}

\* str(uuid.uuid4()): the n-th id created, distinct from every other id
Uuid(n) == "U" \o ToString(n)

AllIds == Ids \cup {"Y", Uuid(1), Uuid(2)}

Absent == [present |-> FALSE]

\* A session file: its content and its st_mtime (st_ctime is the same, the
\* file is only ever rewritten whole).  src is the data mapping the writer
\* held when save() returned (history, read by no operation).
File(bytes, mtime, src) ==
    [present |-> TRUE, bytes |-> bytes, mtime |-> mtime, src |-> src]

\* A key of the store: its value and the time it expires at, -1 when it has
\* no TTL.  src as for File.
Key(bytes, expire, src) ==
    [present |-> TRUE, bytes |-> bytes, expire |-> expire, src |-> src]

\* redis SET: stores the value and discards any TTL of the key
RedisSet(rs, id, bytes, src) == [rs EXCEPT ![id] = Key(bytes, -1, src)]

\* redis EXPIRE: the key, if it exists, expires `seconds` from now
RedisExpire(rs, id, seconds, t) ==
    IF rs[id].present THEN [rs EXCEPT ![id].expire = t + seconds] ELSE rs

\* redis DEL
RedisDelete(rs, id) == [rs EXCEPT ![id] = Absent]

\* pipe.execute(): the queued commands run as one MULTI/EXEC transaction
RECURSIVE PipelineExecute(_, _, _)
PipelineExecute(rs, cmds, t) ==
    IF cmds = <<>> THEN rs
    ELSE LET c == Head(cmds)
             r == IF c.cmd = "SET" THEN RedisSet(rs, c.id, c.bytes, c.src)
                  ELSE RedisExpire(rs, c.id, c.seconds, t)
         IN  PipelineExecute(r, Tail(cmds), t)

\* The store drops a key when its TTL has run out
RedisPurge(rs, t) ==
    [i \in DOMAIN rs |->
        IF rs[i].present /\ rs[i].expire # -1 /\ rs[i].expire <= t
        THEN Absent ELSE rs[i]]

\* Remaining TTL of a key, as the TTL command reports it
RedisTTL(rs, id, t) ==
    IF ~rs[id].present THEN -2
    ELSE IF rs[id].expire = -1 THEN -1
    ELSE rs[id].expire - t

---------------------------------------------------------------------------
(* tinman/session/__init__.py and tinman/session/redis_adapter.py *)

NoAdapter == [alive |-> FALSE]

\* SessionAdapter.__init__: the two stores of the object.  kind is the class
\* (FileSessionAdapter / RedisSessionAdapter), ser the serializer object;
\* id0 keeps the id the object was constructed with (history, read by no
\* operation).
NewAdapter(kind, ser, id, duration) ==
    [alive |-> TRUE, kind |-> kind, ser |-> ser, id0 |-> id,
     attrs |-> [k \in {"_id", "_duration"} |->
                   IF k = "_id" THEN Str(id) ELSE Num(duration)],
     data |-> EmptyDict]

\* SessionAdapter.id: raises KeyError once '_id' has been removed
IdRaises(a) == IF "_id" \in DOMAIN a.attrs THEN "" ELSE "KeyError"

SessionId(a) == a.attrs["_id"].s

DurationOf(a) == a.attrs["_duration"].n

\* SessionAdapter.__contains__
Contains(a, item) == item \in DOMAIN a.data

\* SessionAdapter.__len__
SessionLen(a) == Cardinality(DOMAIN a.data)

\* SessionAdapter.__getattr__ (never raises)
GetAttr(a, key) ==
    IF key = "_data" THEN Map(a.data)
    ELSE IF SubSeq(key, 1, 1) = "_" THEN DictGet(a.attrs, key)
    ELSE DictGet(a.data, key)

\* Variant: every name, reserved or not, is stored in the data
SetAttrNoDispatch(a, key, value) ==
    [a |-> [a EXCEPT !.data = DictSet(a.data, key, value)], raised |-> ""]

\* SessionAdapter.__setattr__
SetAttr(a, key, value) ==
    IF key = "_data" THEN [a |-> a, raised |-> "AttributeError"]
    ELSE IF SubSeq(key, 1, 1) = "_"
    THEN [a |-> [a EXCEPT !.attrs = DictSet(a.attrs, key, value)],
          raised |-> ""]
    ELSE [a |-> [a EXCEPT !.data = DictSet(a.data, key, value)],
          raised |-> ""]

\* SessionAdapter.__delattr__
DelAttr(a, key) ==
    IF key = "_data" THEN [a |-> [a EXCEPT !.data = EmptyDict], raised |-> ""]
    ELSE IF SubSeq(key, 1, 1) = "_"
    THEN [a |-> [a EXCEPT !.attrs = DictDel(a.attrs, key)], raised |-> ""]
    ELSE IF key \in DOMAIN a.data
    THEN [a |-> [a EXCEPT !.data = DictDel(a.data, key)], raised |-> ""]
    ELSE [a |-> a, raised |-> "AttributeError"]

\* SessionAdapter.clear: self._data = dict()
Clear(a) == SetAttr(a, "_data", Map(EmptyDict))

\* FileSessionAdapter._cleanup
Cleanup(fs, duration, t) ==
    [i \in DOMAIN fs |->
        IF fs[i].present /\ fs[i].mtime + duration < t THEN Absent
        ELSE fs[i]]

\* FileSessionAdapter._load_session_data
\* Variant: the file is opened 'wb', which truncates it
FileLoadSessionDataTruncating(a, fs, f) ==
    [raised |-> IdRaises(a), data |-> EmptyDict,
     files |-> IF IdRaises(a) = "" /\ fs[SessionId(a)].present
               THEN [fs EXCEPT ![SessionId(a)].bytes = EmptyBytes]
               ELSE fs]

\* Variant: the IOError of a missing file is not caught
FileLoadSessionDataUncaught(a, fs, f) ==
    LET r == IF IdRaises(a) # ""
             THEN [raised |-> IdRaises(a), data |-> EmptyDict]
             ELSE IF f = "open" \/ ~fs[SessionId(a)].present
             THEN [raised |-> "IOError", data |-> EmptyDict]
             ELSE Deserialize(a.ser, fs[SessionId(a)].bytes)
    IN  [raised |-> r.raised, data |-> r.data, files |-> fs]

\* (the file is opened 'rb': the directory is left as it was; the IOError
\* of open(), for a missing file or a failing filesystem, is caught)
FileLoadSessionData(a, fs, f) ==
    LET r == IF IdRaises(a) # ""
             THEN [raised |-> IdRaises(a), data |-> EmptyDict]
             ELSE IF f = "open" \/ ~fs[SessionId(a)].present
             THEN [raised |-> "", data |-> EmptyDict]
             ELSE Deserialize(a.ser, fs[SessionId(a)].bytes)
    IN  [raised |-> r.raised, data |-> r.data, files |-> fs]

\* RedisSessionAdapter._load_session_data
\* (a GET: the store is left as it was; the client raises ConnectionError
\* when the store cannot be reached)
RedisLoadSessionData(a, rs, f) ==
    LET r == IF IdRaises(a) # ""
             THEN [raised |-> IdRaises(a), data |-> EmptyDict]
             ELSE IF f = "conn"
             THEN [raised |-> "ConnectionError", data |-> EmptyDict]
             ELSE IF \/ ~rs[SessionId(a)].present
                     \/ rs[SessionId(a)].bytes = EmptyBytes
             THEN [raised |-> "", data |-> EmptyDict]
             ELSE Deserialize(a.ser, rs[SessionId(a)].bytes)
    IN  [raised |-> r.raised, data |-> r.data, redis |-> rs]

\* SessionAdapter.load
Load(a, fs, rs, f) ==
    LET r == IF a.kind = "file"
             THEN [redis |-> rs] @@ FileLoadSessionData(a, fs, f)
             ELSE [files |-> fs] @@ RedisLoadSessionData(a, rs, f)
    IN  [a |-> IF r.raised # "" THEN a ELSE [a EXCEPT !.data = r.data],
         files |-> r.files, redis |-> r.redis, raised |-> r.raised]

\* Variant: the file is updated with the adapter's keys, the keys it
\* already holds are kept
FileSaveMerging(a, fs, t, f) ==
    IF IdRaises(a) # "" THEN [a |-> a, files |-> fs, raised |-> IdRaises(a)]
    ELSE LET d == SerializeDatetime(a.data)
             old == IF fs[SessionId(a)].present THEN fs[SessionId(a)].src
                    ELSE EmptyDict
             m == [k \in DOMAIN d \cup DOMAIN old |->
                      IF k \in DOMAIN d THEN d[k] ELSE old[k]]
         IN  [a |-> [a EXCEPT !.data = d],
              files |-> [fs EXCEPT ![SessionId(a)] =
                            File(Bytes(a.ser, m), t, m)],
              raised |-> ""]

\* FileSessionAdapter.save: open(filename, 'wb') creates or truncates the
\* file, then _serialize() runs, then the bytes are written; an IOError of
\* open() or of write() is raised again
FileSave(a, fs, t, f) ==
    IF IdRaises(a) # "" THEN [a |-> a, files |-> fs, raised |-> IdRaises(a)]
    ELSE IF f = "open" THEN [a |-> a, files |-> fs, raised |-> "IOError"]
    ELSE LET d == SerializeDatetime(a.data)
         IN  IF f = "write"
             THEN [a |-> [a EXCEPT !.data = d],
                   files |-> [fs EXCEPT ![SessionId(a)] =
                                 File(EmptyBytes, t, EmptyDict)],
                   raised |-> "IOError"]
             ELSE [a |-> [a EXCEPT !.data = d],
                   files |-> [fs EXCEPT ![SessionId(a)] =
                                 File(Serialize(a.ser, a.data), t, d)],
                   raised |-> ""]

\* Variant: the pipeline holds the SET only
RedisSaveNoExpire(a, rs, t, f) ==
    IF IdRaises(a) # "" THEN [a |-> a, redis |-> rs, raised |-> IdRaises(a)]
    ELSE LET d == SerializeDatetime(a.data)
             pipe == << [cmd |-> "SET", id |-> SessionId(a),
                         bytes |-> Serialize(a.ser, a.data), src |-> d] >>
         IN  [a |-> [a EXCEPT !.data = d],
              redis |-> PipelineExecute(rs, pipe, t),
              raised |-> ""]

\* RedisSessionAdapter.save: pipe.execute() raises ConnectionError when the
\* store cannot be reached, and none of the queued commands has run
RedisSave(a, rs, t, f) ==
    IF IdRaises(a) # "" THEN [a |-> a, redis |-> rs, raised |-> IdRaises(a)]
    ELSE LET d == SerializeDatetime(a.data)
             pipe == << [cmd |-> "SET", id |-> SessionId(a),
                         bytes |-> Serialize(a.ser, a.data), src |-> d],
                        [cmd |-> "EXPIRE", id |-> SessionId(a),
                         seconds |-> DurationOf(a)] >>
         IN  IF f = "conn"
             THEN [a |-> [a EXCEPT !.data = d], redis |-> rs,
                   raised |-> "ConnectionError"]
             ELSE [a |-> [a EXCEPT !.data = d],
                   redis |-> PipelineExecute(rs, pipe, t),
                   raised |-> ""]

\* FileSessionAdapter.delete
FileDelete(a, fs) ==
    LET c == Clear(a)
    IN  IF c.raised # "" THEN [a |-> c.a, files |-> fs, raised |-> c.raised]
        ELSE IF IdRaises(c.a) # ""
        THEN [a |-> c.a, files |-> fs, raised |-> IdRaises(c.a)]
        ELSE [a |-> c.a, files |-> [fs EXCEPT ![SessionId(c.a)] = Absent],
              raised |-> ""]

\* RedisSessionAdapter.delete: the body holds a yield, so the call builds a
\* generator and runs none of it
RedisDeleteCall(a, rs) == [a |-> a, redis |-> rs, raised |-> ""]

\* SessionAdapter.save, by class
Save(a, fs, rs, t, f) ==
    IF a.kind = "file"
    THEN [redis |-> rs] @@ FileSave(a, fs, t, f)
    ELSE [files |-> fs] @@ RedisSave(a, rs, t, f)

\* SessionAdapter.delete, by class
DeleteSession(a, fs, rs) ==
    IF a.kind = "file"
    THEN [redis |-> rs] @@ FileDelete(a, fs)
    ELSE [files |-> fs] @@ RedisDeleteCall(a, rs)

\* tinman.config.FILE and tinman.config.REDIS, the adapter names
ConfigFile == "file"

ConfigRedis == "redis"

\* configuration.get(key) of a key the configuration does not hold
Unset == "<unset>"

\* The directory the deployment made for the session files, and
\* FileSessionAdapter._default_path (tempfile.gettempdir()/tinman)
SessionDir == "/srv/sessions"

DefaultPath == "/tmp/tinman"

\* Variant: the configured directory is used without looking at it
SetupStorageDirUnchecked(settings, ds) ==
    IF settings.directory = Unset
    THEN [raised |-> "", dir |-> DefaultPath, dirs |-> ds \cup {DefaultPath}]
    ELSE [raised |-> "", dir |-> settings.directory, dirs |-> ds]

\* FileSessionAdapter._setup_storage_dir: the storage directory, the
\* directories that exist afterwards, and the exception raised
SetupStorageDir(settings, ds) ==
    IF settings.directory = Unset
    THEN [raised |-> "", dir |-> DefaultPath, dirs |-> ds \cup {DefaultPath}]
    ELSE IF settings.directory \notin ds
    THEN [raised |-> "ConfigurationException", dir |-> Unset, dirs |-> ds]
    ELSE [raised |-> "", dir |-> settings.directory, dirs |-> ds]

\* get_session_adapter(application, session_id, configuration, duration);
\* FileSessionAdapter.__init__ sets up the storage directory and sweeps it
GetSessionAdapter(settings, sid, fs, t, ds) ==
    IF settings.name = ConfigFile
    THEN LET d == SetupStorageDir(settings, ds)
         IN  IF d.raised # ""
             THEN [raised |-> d.raised, a |-> NoAdapter, files |-> fs,
                   dirs |-> d.dirs]
             ELSE [raised |-> "",
                   a |-> NewAdapter("file", settings.serializer, sid,
                                    settings.duration),
                   files |-> IF settings.cleanup
                             THEN Cleanup(fs, settings.duration, t) ELSE fs,
                   dirs |-> d.dirs]
    ELSE IF settings.name = ConfigRedis
    THEN [raised |-> "",
          a |-> NewAdapter("redis", settings.serializer, sid,
                           settings.duration),
          files |-> fs, dirs |-> ds]
    ELSE [raised |-> "ConfigurationException", a |-> NoAdapter, files |-> fs,
          dirs |-> ds]

---------------------------------------------------------------------------
(* tinman/session.py: the Session class of tinman.handler, file storage *)

LegacyHandlers == {"h1"}

\* Session._new: the sha1 of the request's remote_ip, User-Agent and the
\* time of the call, one id per request handler
LegacyNewId(h) == "sha1-" \o h

LegacyIds == Ids \cup {LegacyNewId(h) : h \in LegacyHandlers}

\* No Session object made for a handler
NoSession == [alive |-> FALSE]

\* The class attribute Session.values, the Session object of each handler
\* and the session directory.  An object holds its own 'values' (own) only
\* once _load has assigned it; until then self.values is the class
\* attribute.
NoLegacy ==
    [values |-> EmptyDict,
     obj |-> [h \in LegacyHandlers |-> NoSession],
     dir |-> [i \in LegacyIds |-> Absent]]

\* self.values
LegacyValues(L, h) ==
    IF L.obj[h].own THEN L.obj[h].values ELSE L.values

\* Session.__setattr__ of a name that is not protected
LegacySetAttr(L, h, key, value) ==
    IF L.obj[h].own
    THEN [L EXCEPT !.obj[h].values = DictSet(L.obj[h].values, key, value)]
    ELSE [L EXCEPT !.values = DictSet(L.values, key, value)]

\* Session.save: open(session_file, 'w') creates or truncates the file,
\* then pickle.dumps(self.values) is written; an IOError is logged and the
\* call returns
LegacySave(L, h, t, f) ==
    IF ~L.obj[h].hasId THEN [L |-> L, raised |-> "KeyError"]
    ELSE IF f = "open" THEN [L |-> L, raised |-> ""]
    ELSE IF f = "write"
    THEN [L |-> [L EXCEPT !.dir[L.obj[h].id] = File(EmptyBytes, t, EmptyDict)],
          raised |-> ""]
    ELSE [L |-> [L EXCEPT !.dir[L.obj[h].id] =
                    File(Bytes("pickle", LegacyValues(L, h)), t,
                         LegacyValues(L, h))],
          raised |-> ""]

\* Session._load: pickle.loads of the file's content becomes the object's
\* own values; when the file cannot be opened, 'started' is set and the
\* session is saved
LegacyLoad(L, h, t, f) ==
    LET c == L.dir[L.obj[h].id]
    IN  IF f = "open" \/ ~c.present
        THEN LegacySave(LegacySetAttr(L, h, "started", Dt(t, 0)), h, t, f)
        ELSE IF c.bytes = EmptyBytes THEN [L |-> L, raised |-> "EOFError"]
        ELSE IF c.bytes.fmt # "pickle"
        THEN [L |-> L, raised |-> "UnpicklingError"]
        ELSE [L |-> [L EXCEPT !.obj[h].own = TRUE,
                              !.obj[h].values = c.bytes.m],
              raised |-> ""]

\* Session.__init__: cookie is the value of the session cookie, "" when the
\* request has none; _new sets 'started' before the first save
LegacyInit(L, h, cookie, t, f) ==
    LET o == [alive |-> TRUE, hasId |-> TRUE,
              id |-> IF cookie # "" THEN cookie ELSE LegacyNewId(h),
              own |-> FALSE, values |-> EmptyDict]
        L1 == [L EXCEPT !.obj[h] = o]
    IN  IF cookie # "" THEN LegacyLoad(L1, h, t, f)
        ELSE LegacySave(LegacySetAttr(L1, h, "started", Dt(t, 0)), h, t, f)

\* Session.clear: os.unlink raises OSError when the file is not there; the
\* id is removed once the file is
LegacyClear(L, h) ==
    IF ~L.obj[h].hasId THEN [L |-> L, raised |-> "KeyError"]
    ELSE IF ~L.dir[L.obj[h].id].present THEN [L |-> L, raised |-> "OSError"]
    ELSE [L |-> [L EXCEPT !.dir[L.obj[h].id] = Absent,
                          !.obj[h].hasId = FALSE],
          raised |-> ""]

---------------------------------------------------------------------------
(* Application code using adapters directly *)

Adapters == {"a", "b"}

DataKeys == {"locale", "seen"}

\* What application code assigns: data attributes (a string, a number, a
\* boolean, a timestamp), the reserved '_data', and the reserved '_id'
Assignments ==
    { <<"locale", Str("en")>>, <<"locale", Num(1)>>,
      <<"seen", Bool(TRUE)>>, <<"seen", Dt(1, 0)>>,
      <<"_data", Map(EmptyDict)>>,
      <<"_id", Str("Y")>> }

Deletions == DataKeys \cup {"_data", "_id"}

\* The 'session' settings of the application: adapter name, serializer,
\* duration, file cleanup, and whether a 'cookie' section is present
Settings ==
    [name : {ConfigFile, ConfigRedis}, serializer : SerializerNames,
     duration : {Duration}, cleanup : {TRUE}, cookie : {TRUE},
     directory : {SessionDir}]

\* The record of a call: name, adapter, attribute name (setattr, delattr)
\* and exception; for save() on the key-value adapter, ttl is the TTL its
\* key had when the call was made
CallT(name, who, key, raised, ttl) ==
    [name |-> name, who |-> who, key |-> key, raised |-> raised, ttl |-> ttl]

Call(name, who, key, raised) == CallT(name, who, key, raised, -2)

NoOp == Call("init", "", "", "")

NoFiles == [i \in AllIds |-> Absent]

Reqs == {"r1", "r2"}

\* No request is being handled
NoReqs == [r \in Reqs |-> [pc |-> "idle"]]

Init ==
    /\ cfg \in Settings
    /\ now = 0
    /\ files = NoFiles
    /\ redis = NoFiles
    /\ ad = [x \in Adapters |-> NoAdapter]
    /\ op = NoOp
    /\ steps = 0
    /\ minted = 0
    /\ sz = NoSz
    /\ req = NoReqs
    /\ fault = ""
    /\ dirs = {SessionDir}
    /\ legacy = NoLegacy
    /\ OthersOff

\* get_session_adapter(application, session_id, configuration, duration)
\* with the session id of a cookie
Construct(x, sid) ==
    /\ ~ad[x].alive
    /\ LET g == GetSessionAdapter(cfg, sid, files, now, dirs)
       IN  /\ ad' = [ad EXCEPT ![x] = g.a]
           /\ files' = g.files
           /\ dirs' = g.dirs
           /\ op' = Call("construct", x, "", g.raised)
    /\ UNCHANGED <<cfg, now, redis, steps, minted, sz, req, fault, legacy, others>>

\* get_session_adapter with session_id None: _create_id makes a new id
ConstructNew(x) ==
    /\ ~ad[x].alive
    /\ LET g == GetSessionAdapter(cfg, Uuid(minted + 1), files, now, dirs)
       IN  /\ ad' = [ad EXCEPT ![x] = g.a]
           /\ files' = g.files
           /\ dirs' = g.dirs
           /\ op' = Call("construct", x, "", g.raised)
           /\ minted' = IF g.raised = "" THEN minted + 1 ELSE minted
    /\ UNCHANGED <<cfg, now, redis, steps, sz, req, fault, legacy, others>>

\* adapter.<key> = value
Assign(x, key, value) ==
    /\ steps < MaxSteps
    /\ ad[x].alive
    /\ LET r == SetAttr(ad[x], key, value)
       IN  /\ ad' = [ad EXCEPT ![x] = r.a]
           /\ op' = Call("setattr", x, key, r.raised)
    /\ steps' = steps + 1
    /\ UNCHANGED <<cfg, now, files, redis, minted, sz, req, fault, dirs, legacy, others>>

\* del adapter.<key>
Delete(x, key) ==
    /\ steps < MaxSteps
    /\ ad[x].alive
    /\ LET r == DelAttr(ad[x], key)
       IN  /\ ad' = [ad EXCEPT ![x] = r.a]
           /\ op' = Call("delattr", x, key, r.raised)
    /\ steps' = steps + 1
    /\ UNCHANGED <<cfg, now, files, redis, minted, sz, req, fault, dirs, legacy, others>>

\* adapter.clear()
DoClear(x) ==
    /\ steps < MaxSteps
    /\ ad[x].alive
    /\ LET r == Clear(ad[x])
       IN  /\ ad' = [ad EXCEPT ![x] = r.a]
           /\ op' = Call("clear", x, "", r.raised)
    /\ steps' = steps + 1
    /\ UNCHANGED <<cfg, now, files, redis, minted, sz, req, fault, dirs, legacy, others>>

\* adapter.load()
DoLoad(x) ==
    /\ steps < MaxSteps
    /\ ad[x].alive
    /\ LET r == Load(ad[x], files, redis, fault)
       IN  /\ ad' = [ad EXCEPT ![x] = r.a]
           /\ files' = r.files
           /\ redis' = r.redis
           /\ op' = Call("load", x, "", r.raised)
    /\ steps' = steps + 1
    /\ UNCHANGED <<cfg, now, minted, sz, req, fault, dirs, legacy, others>>

\* adapter.save()
DoSave(x) ==
    /\ steps < MaxSteps
    /\ ad[x].alive
    /\ LET r == Save(ad[x], files, redis, now, fault)
       IN  /\ ad' = [ad EXCEPT ![x] = r.a]
           /\ files' = r.files
           /\ redis' = r.redis
           /\ op' = CallT("save", x, "", r.raised,
                          IF r.raised = "" /\ ad[x].kind = "redis"
                          THEN RedisTTL(redis, SessionId(ad[x]), now)
                          ELSE -2)
    /\ steps' = steps + 1
    /\ UNCHANGED <<cfg, now, minted, sz, req, fault, dirs, legacy, others>>

\* adapter.delete()
DoDelete(x) ==
    /\ steps < MaxSteps
    /\ ad[x].alive
    /\ LET r == DeleteSession(ad[x], files, redis)
       IN  /\ ad' = [ad EXCEPT ![x] = r.a]
           /\ files' = r.files
           /\ redis' = r.redis
           /\ op' = Call("delete", x, "", r.raised)
    /\ steps' = steps + 1
    /\ UNCHANGED <<cfg, now, minted, sz, req, fault, dirs, legacy, others>>

\* A second passes; the store drops the keys whose TTL has run out
Tick ==
    /\ now < MaxTime
    /\ now' = now + 1
    /\ redis' = RedisPurge(redis, now + 1)
    /\ op' = Call("tick", "", "", "")
    /\ UNCHANGED <<cfg, files, ad, steps, minted, sz, req, fault, dirs, legacy, others>>

Next ==
    \/ \E x \in Adapters, sid \in Ids : Construct(x, sid)
    \/ \E x \in Adapters : ConstructNew(x)
    \/ \E x \in Adapters, kv \in Assignments : Assign(x, kv[1], kv[2])
    \/ \E x \in Adapters, key \in Deletions : Delete(x, key)
    \/ \E x \in Adapters : DoClear(x)
    \/ \E x \in Adapters : DoLoad(x)
    \/ \E x \in Adapters : DoSave(x)
    \/ \E x \in Adapters : DoDelete(x)
    \/ Tick

Spec == Init /\ [][Next]_vars

InitSer ==
    /\ cfg = [name |-> ConfigFile, serializer |-> "pickle",
              duration |-> Duration, cleanup |-> TRUE, cookie |-> TRUE,
              directory |-> SessionDir]
    /\ now = 0
    /\ files = NoFiles
    /\ redis = NoFiles
    /\ ad = [x \in Adapters |-> NoAdapter]
    /\ op = NoOp
    /\ steps = 0
    /\ minted = 0
    /\ SzInit
    /\ req = NoReqs
    /\ fault = ""
    /\ dirs = {SessionDir}
    /\ legacy = NoLegacy
    /\ OthersOff

NextSer == SzSerialize \/ SzDeserialize

SpecSer == InitSer /\ [][NextSer]_vars

---------------------------------------------------------------------------
(* tinman/handlers/session.py: SessionRequestHandler *)

\* The incoming request: its session cookie ("" when it carries none), its
\* remote_ip and its uri
ReqIp(r) == IF r = "r1" THEN "10.0.0.1" ELSE "10.0.0.2"

ReqUri(r) == IF r = "r1" THEN "/a" ELSE "/b"

\* The response cookie (set_secure_cookie / clear_cookie)
NoCookie == [set |-> FALSE]

SetCookie(value, expires) ==
    [set |-> TRUE, value |-> value, expires |-> expires]

\* A handler object before prepare().  session is the attribute
\* self.session (NoAdapter while unset).  History, read by no operation:
\* sid (the id of the session made by prepare), at (time of prepare), loaded (load() returned), held (keys held after
\* load), wrote (keys the handler logic assigned), saves (save() calls
\* made by on_finish), saved (data held when that save returned), inflight
\* (the requests that had prepared and not finished when this one finished)
NewRequest(r, cookie) ==
    [pc |-> "new", cookie |-> cookie, ip |-> ReqIp(r), uri |-> ReqUri(r),
     session |-> NoAdapter, cookieOut |-> NoCookie,
     sid |-> "", at |-> 0, loaded |-> FALSE, held |-> {}, wrote |-> {}, saves |-> 0,
     saved |-> EmptyDict, inflight |-> {}]

\* Variant: the expiration does not add the duration
CookieExpirationNow(t, duration) == t

\* SessionRequestHandler._cookie_expiration
CookieExpiration(t, duration) == t + duration

\* float(lra) in _last_values
FloatRaises(v) ==
    IF v.t \in {"num", "bool"} THEN ""
    ELSE IF v.t = "str"
    THEN IF ParseSeconds(v.s) >= 0 THEN "" ELSE "ValueError"
    ELSE "TypeError"

Float(v) ==
    IF v.t = "num" THEN v.n
    ELSE IF v.t = "bool" THEN (IF v.b THEN 1 ELSE 0)
    ELSE ParseSeconds(v.s)

\* SessionRequestHandler._last_values
LastValues(a) ==
    LET a1 == IF ~Truthy(GetAttr(a, "last_request_uri"))
              THEN SetAttr(a, "last_request_uri", None).a ELSE a
        lra == GetAttr(a1, "last_request_at")
    IN  IF lra = None
        THEN [a |-> SetAttr(a1, "last_request_at", None).a, raised |-> ""]
        ELSE IF FloatRaises(lra) # "" THEN [a |-> a1, raised |-> FloatRaises(lra)]
        ELSE [a |-> SetAttr(a1, "last_request_at", Dt(Float(lra), 0)).a,
              raised |-> ""]

\* SessionRequestHandler.prepare, from the assignment of self.session on:
\* load, first-touch ip_address, _last_values, _set_session_cookie.  The
\* result is the handler object after the call and the exception raised.
PrepareSession(rq, a, fs, rs, t, settings, f) ==
    LET l == Load(a, fs, rs, f)
        a1 == IF ~Truthy(GetAttr(l.a, "ip_address"))
              THEN SetAttr(l.a, "ip_address", Str(rq.ip)).a ELSE l.a
        lv == LastValues(a1)
    IN  IF l.raised # ""
        THEN [rq |-> [rq EXCEPT !.pc = "failed", !.session = l.a, !.at = t],
              files |-> l.files, redis |-> l.redis, raised |-> l.raised]
        ELSE IF lv.raised # ""
        THEN [rq |-> [rq EXCEPT !.pc = "failed", !.session = lv.a, !.at = t,
                                !.loaded = TRUE, !.held = DOMAIN l.a.data],
              files |-> l.files, redis |-> l.redis, raised |-> lv.raised]
        ELSE IF ~settings.cookie
        THEN [rq |-> [rq EXCEPT !.pc = "failed", !.session = lv.a, !.at = t,
                                !.loaded = TRUE, !.held = DOMAIN l.a.data],
              files |-> l.files, redis |-> l.redis,
              raised |-> "AttributeError"]
        ELSE [rq |-> [rq EXCEPT !.pc = "prepared", !.session = lv.a,
                                !.at = t, !.loaded = TRUE,
                                !.held = DOMAIN l.a.data,
                                !.cookieOut =
                                    SetCookie(SessionId(lv.a),
                                        CookieExpiration(t, settings.duration))],
              files |-> l.files, redis |-> l.redis, raised |-> ""]

\* SessionRequestHandler.prepare
Prepare(r) ==
    /\ req[r].pc = "new"
    /\ LET sid == IF req[r].cookie = "" THEN Uuid(minted + 1)
                  ELSE req[r].cookie
           g == GetSessionAdapter(cfg, sid, files, now, dirs)
       IN  IF g.raised # ""
           THEN /\ req' = [req EXCEPT ![r].pc = "failed", ![r].at = now]
                /\ op' = Call("prepare", r, "", g.raised)
                /\ dirs' = g.dirs
                /\ UNCHANGED <<files, redis, minted>>
           ELSE LET p == PrepareSession(req[r], g.a, g.files, redis, now, cfg,
                                         fault)
                IN  /\ req' = [req EXCEPT ![r] = [p.rq EXCEPT !.sid = sid]]
                    /\ files' = p.files
                    /\ redis' = p.redis
                    /\ dirs' = g.dirs
                    /\ op' = Call("prepare", r, "", p.raised)
                    /\ minted' = IF req[r].cookie = "" THEN minted + 1
                                 ELSE minted
    /\ UNCHANGED <<cfg, now, ad, steps, sz, fault, legacy, others>>

\* What the handler logic of the application assigns to self.session
HandlerAssignments == { <<"locale", Str("en")>>, <<"seen", Dt(1, 0)>> }

\* Handler logic: self.session.<key> = value
HandlerAssign(r, key, value) ==
    /\ req[r].pc = "prepared"
    /\ req' = [req EXCEPT ![r].session = SetAttr(req[r].session, key, value).a,
                          ![r].wrote = req[r].wrote \cup {key}]
    /\ op' = Call("setattr", r, key, "")
    /\ UNCHANGED <<cfg, now, files, redis, ad, steps, minted, sz, fault, dirs, legacy, others>>

\* Handler logic: SessionRequestHandler._clear_session (the log-out flow);
\* an exception of delete() ends the handler logic
ClearSession(r) ==
    /\ req[r].pc = "prepared"
    /\ LET d == DeleteSession(req[r].session, files, redis)
       IN  /\ req' = [req EXCEPT
                        ![r].session = d.a,
                        ![r].pc = IF d.raised # "" THEN "raised"
                                  ELSE "prepared",
                        ![r].cookieOut = IF d.raised # "" THEN req[r].cookieOut
                                         ELSE SetCookie("", -1)]
           /\ files' = d.files
           /\ redis' = d.redis
           /\ op' = Call("_clear_session", r, "", d.raised)
    /\ UNCHANGED <<cfg, now, ad, steps, minted, sz, fault, dirs, legacy, others>>

\* Handler logic raises
HandlerRaise(r) ==
    /\ req[r].pc = "prepared"
    /\ req' = [req EXCEPT ![r].pc = "raised"]
    /\ op' = Call("handler", r, "", "Exception")
    /\ UNCHANGED <<cfg, now, files, redis, ad, steps, minted, sz, fault, dirs, legacy, others>>

InFlight(r) == {q \in Reqs \ {r} : req[q].pc \in {"prepared", "raised"}}

\* SessionRequestHandler.on_finish: the framework calls it when the request
\* is finished, also after prepare() or the handler logic raised
OnFinish(r) ==
    /\ req[r].pc \in {"prepared", "raised", "failed"}
    /\ IF ~req[r].session.alive
       THEN /\ req' = [req EXCEPT ![r].pc = "finish_raised",
                                  ![r].inflight = InFlight(r)]
            /\ op' = Call("on_finish", r, "", "AttributeError")
            /\ UNCHANGED <<files, redis>>
       ELSE LET a1 == SetAttr(req[r].session, "last_request_at",
                              Str(ToString(now))).a
                a2 == SetAttr(a1, "last_request_uri", Str(req[r].uri)).a
                sv == Save(a2, files, redis, now, fault)
            IN  /\ req' = [req EXCEPT
                             ![r].pc = IF sv.raised = "" THEN "finished"
                                       ELSE "finish_raised",
                             ![r].session = IF sv.raised = "" THEN NoAdapter
                                            ELSE sv.a,
                             ![r].saves = req[r].saves + 1,
                             ![r].saved = sv.a.data,
                             ![r].inflight = InFlight(r)]
                /\ files' = sv.files
                /\ redis' = sv.redis
                /\ op' = Call("on_finish", r, "", sv.raised)
    /\ UNCHANGED <<cfg, now, ad, steps, minted, sz, fault, dirs, legacy, others>>

\* The settings a deployment may have: the adapter name may be one that
\* get_session_adapter does not know
RequestSettings ==
    [name : {ConfigFile, ConfigRedis, "memcache"},
     serializer : SerializerNames,
     duration : {Duration}, cleanup : {TRUE}, cookie : {TRUE, FALSE},
     directory : {SessionDir}]

InitReq ==
    /\ cfg \in RequestSettings
    /\ now = 0
    /\ files = NoFiles
    /\ redis = NoFiles
    /\ ad = [x \in Adapters |-> NoAdapter]
    /\ op = NoOp
    /\ steps = 0
    /\ minted = 0
    /\ sz = NoSz
    /\ req \in {[r \in Reqs |-> NewRequest(r, c[r])] : c \in [Reqs -> Ids \cup {""}]}
    /\ fault = ""
    /\ dirs = {SessionDir}
    /\ legacy = NoLegacy
    /\ OthersOff

NextReq ==
    \/ \E r \in Reqs : Prepare(r)
    \/ \E r \in Reqs, kv \in HandlerAssignments : HandlerAssign(r, kv[1], kv[2])
    \/ \E r \in Reqs : ClearSession(r)
    \/ \E r \in Reqs : HandlerRaise(r)
    \/ \E r \in Reqs : OnFinish(r)
    \/ Tick

SpecReq == InitReq /\ [][NextReq]_vars

---------------------------------------------------------------------------
(* Storage failures: a backend that cannot be reached or written, and a    *)
(* stored copy whose bytes are not what a serializer wrote                 *)

\* "open": open() of a session file raises IOError; "write": the file is
\* opened and its write() raises IOError; "conn": the key-value store
\* cannot be reached
Faults == {"open", "write", "conn"}

\* Bytes that no serializer reads
Garbage == [fmt |-> "garbage"]

FaultAdapters == {"a"}

FaultAssignments == { <<"locale", Str("en")>>, <<"seen", Dt(1, 0)>> }

\* The backend starts failing
Fail(f) ==
    /\ fault = ""
    /\ fault' = f
    /\ op' = Call("fail", "", "", "")
    /\ UNCHANGED <<cfg, now, files, redis, ad, steps, minted, sz, req, dirs, legacy, others>>

\* The backend works again
Restore ==
    /\ fault # ""
    /\ fault' = ""
    /\ op' = Call("restore", "", "", "")
    /\ UNCHANGED <<cfg, now, files, redis, ad, steps, minted, sz, req, dirs, legacy, others>>

\* The stored copy of session i is damaged outside the application
Corrupt(i) ==
    /\ \/ files[i].present /\ files[i].bytes # Garbage
       \/ redis[i].present /\ redis[i].bytes # Garbage
    /\ files' = IF files[i].present THEN [files EXCEPT ![i].bytes = Garbage]
                ELSE files
    /\ redis' = IF redis[i].present THEN [redis EXCEPT ![i].bytes = Garbage]
                ELSE redis
    /\ op' = Call("corrupt", "", "", "")
    /\ UNCHANGED <<cfg, now, ad, steps, minted, sz, req, fault, dirs, legacy, others>>

\* tinman.handler: self.session = tinman.session.Session(self)
LegacyNew(h, cookie) ==
    /\ ~legacy.obj[h].alive
    /\ LET r == LegacyInit(legacy, h, cookie, now, fault)
       IN  /\ legacy' = r.L
           /\ op' = Call("legacy_init", h, "", r.raised)
    /\ UNCHANGED <<cfg, now, files, redis, ad, steps, minted, sz, req, fault, dirs, others>>

\* session.<key> = value
LegacyAssign(h, key, value) ==
    /\ steps < MaxSteps
    /\ legacy.obj[h].alive
    /\ legacy' = LegacySetAttr(legacy, h, key, value)
    /\ op' = Call("legacy_setattr", h, key, "")
    /\ steps' = steps + 1
    /\ UNCHANGED <<cfg, now, files, redis, ad, minted, sz, req, fault, dirs, others>>

\* session.save()
LegacyDoSave(h) ==
    /\ steps < MaxSteps
    /\ legacy.obj[h].alive
    /\ LET r == LegacySave(legacy, h, now, fault)
       IN  /\ legacy' = r.L
           /\ op' = Call("legacy_save", h, "", r.raised)
    /\ steps' = steps + 1
    /\ UNCHANGED <<cfg, now, files, redis, ad, minted, sz, req, fault, dirs, others>>

\* session.clear()
LegacyDoClear(h) ==
    /\ steps < MaxSteps
    /\ legacy.obj[h].alive
    /\ LET r == LegacyClear(legacy, h)
       IN  /\ legacy' = r.L
           /\ op' = Call("legacy_clear", h, "", r.raised)
    /\ steps' = steps + 1
    /\ UNCHANGED <<cfg, now, files, redis, ad, minted, sz, req, fault, dirs, others>>

NextFault ==
    \/ \E x \in FaultAdapters, sid \in Ids : Construct(x, sid)
    \/ \E x \in FaultAdapters, kv \in FaultAssignments :
          Assign(x, kv[1], kv[2])
    \/ \E x \in FaultAdapters : DoLoad(x)
    \/ \E x \in FaultAdapters : DoSave(x)
    \/ \E x \in FaultAdapters : DoDelete(x)
    \/ \E f \in Faults : Fail(f)
    \/ Restore
    \/ \E i \in Ids : Corrupt(i)
    \/ \E h \in LegacyHandlers, c \in Ids \cup {""} : LegacyNew(h, c)
    \/ \E h \in LegacyHandlers, kv \in FaultAssignments :
          LegacyAssign(h, kv[1], kv[2])
    \/ \E h \in LegacyHandlers : LegacyDoSave(h)
    \/ \E h \in LegacyHandlers : LegacyDoClear(h)

SpecFault == Init /\ [][NextFault]_vars

\* Deployments whose session settings may be wrong: an adapter name that
\* is missing or unknown, a directory setting that is missing or names a
\* path that does not exist
MissingDir == "/srv/missing"

ConfigSettings ==
    [name : {ConfigFile, ConfigRedis, "memcache", Unset},
     serializer : SerializerNames,
     duration : {Duration}, cleanup : {TRUE}, cookie : {TRUE},
     directory : {SessionDir, MissingDir, Unset}]

InitCfg ==
    /\ cfg \in ConfigSettings
    /\ now = 0
    /\ files = NoFiles
    /\ redis = NoFiles
    /\ ad = [x \in Adapters |-> NoAdapter]
    /\ op = NoOp
    /\ steps = 0
    /\ minted = 0
    /\ sz = NoSz
    /\ req = NoReqs
    /\ fault = ""
    /\ dirs = {SessionDir}
    /\ legacy = NoLegacy
    /\ OthersOff

NextCfg ==
    \/ \E x \in Adapters, sid \in Ids : Construct(x, sid)
    \/ \E x \in Adapters : ConstructNew(x)
    \/ \E x \in Adapters, kv \in FaultAssignments : Assign(x, kv[1], kv[2])
    \/ \E x \in Adapters : DoSave(x)
    \/ \E x \in Adapters : DoLoad(x)

SpecCfg == InitCfg /\ [][NextCfg]_vars

\* Requests handled while the storage backend fails and recovers
InitReqFault ==
    /\ cfg \in Settings
    /\ now = 0
    /\ files = NoFiles
    /\ redis = NoFiles
    /\ ad = [x \in Adapters |-> NoAdapter]
    /\ op = NoOp
    /\ steps = 0
    /\ minted = 0
    /\ sz = NoSz
    /\ req \in {[r \in Reqs |-> NewRequest(r, c[r])] : c \in [Reqs -> Ids \cup {""}]}
    /\ fault = ""
    /\ dirs = {SessionDir}
    /\ legacy = NoLegacy
    /\ OthersOff

NextReqFault ==
    \/ \E r \in Reqs : Prepare(r)
    \/ \E r \in Reqs, kv \in HandlerAssignments : HandlerAssign(r, kv[1], kv[2])
    \/ \E r \in Reqs : OnFinish(r)
    \/ \E f \in Faults : Fail(f)
    \/ Restore

SpecReqFault == InitReqFault /\ [][NextReqFault]_vars

---------------------------------------------------------------------------
(* The other components are used with the session subsystem at rest *)

SessionOff ==
    /\ cfg = [name |-> ConfigFile, serializer |-> "pickle",
              duration |-> Duration, cleanup |-> TRUE, cookie |-> TRUE,
              directory |-> SessionDir]
    /\ now = 0
    /\ files = NoFiles
    /\ redis = NoFiles
    /\ ad = [x \in Adapters |-> NoAdapter]
    /\ op = NoOp
    /\ steps = 0
    /\ minted = 0
    /\ sz = NoSz
    /\ req = NoReqs
    /\ fault = ""
    /\ dirs = {SessionDir}

---------------------------------------------------------------------------
(* tinman/mapping.py, tinman/model/base.py: equality of container objects *)

\* The classes of the objects compared: Mapping, tinman.model.Model (a
\* subclass of Mapping) and a session adapter class
ContainerClasses == {"Mapping", "Model", "FileSessionAdapter"}

\* isinstance(obj, cls)
IsInstance(obj, cls) ==
    obj.cls = cls \/ (obj.cls = "Model" /\ cls = "Mapping")

\* A container object: its identity, its class and its data mapping (for a
\* Mapping, the attributes that keys() lists)
Container(oid, cls, data) == [oid |-> oid, cls |-> cls, data |-> data]

\* Mapping.__eq__ / Model.__eq__: getattr(other, k) raises AttributeError
\* for a key the other object does not have
MappingEq(a, b) ==
    IF ~IsInstance(b, a.cls) THEN [raised |-> "", value |-> FALSE]
    ELSE IF \E k \in DOMAIN a.data : k \notin DOMAIN b.data
    THEN [raised |-> "AttributeError", value |-> FALSE]
    ELSE [raised |-> "",
          value |-> \A k \in DOMAIN a.data : a.data[k] = b.data[k]]

\* a == b.  SessionAdapter defines no __eq__: its objects compare by
\* identity
Equals(a, b) ==
    IF a.cls \in {"Mapping", "Model"} THEN MappingEq(a, b)
    ELSE IF b.cls \in {"Mapping", "Model"} THEN MappingEq(b, a)
    ELSE [raised |-> "", value |-> a.oid = b.oid]

ContainerData ==
    UNION { [ks -> {Num(1), Num(2)}] : ks \in SUBSET {"k", "j"} }

InitEq ==
    /\ SessionOff
    /\ legacy = NoLegacy
    /\ wl = Off /\ attrs = Off /\ mq = Off /\ wk = Off /\ ctl = Off
    /\ \E ca, cb \in ContainerClasses, da, db \in ContainerData :
          eq = [phase |-> "input", a |-> Container(1, ca, da),
                b |-> Container(2, cb, db)]

\* a == b and b == a are evaluated
Compare ==
    /\ eq.phase = "input"
    /\ eq' = [phase |-> "done", a |-> eq.a, b |-> eq.b,
              ab |-> Equals(eq.a, eq.b), ba |-> Equals(eq.b, eq.a)]
    /\ UNCHANGED <<session, wl, attrs, mq, wk, ctl>>

SpecEq == InitEq /\ [][Compare]_vars

---------------------------------------------------------------------------
(* tinman/decorators/whitelist.py (tinman/whitelist.py holds the same code) *)

\* The remote addresses of the requests; the last one is not an IPv4 address
RemoteIps == {"1.2.3.4", "2.2.3.4", "11.12.13.14", "::1"}

\* The entries the whitelists are made of; the last one is not a network
Entries == {"1.2.3.0/24", "11.12.13.0/24", "1.2.3.4/32", "bogus"}

\* The octets and prefix length that ipaddr parses out of a string
Parsed(s) ==
    CASE s = "1.2.3.4" -> [ok |-> TRUE, octets |-> <<1, 2, 3, 4>>, prefix |-> 32]
      [] s = "2.2.3.4" -> [ok |-> TRUE, octets |-> <<2, 2, 3, 4>>, prefix |-> 32]
      [] s = "11.12.13.14" ->
            [ok |-> TRUE, octets |-> <<11, 12, 13, 14>>, prefix |-> 32]
      [] s = "1.2.3.0/24" ->
            [ok |-> TRUE, octets |-> <<1, 2, 3, 0>>, prefix |-> 24]
      [] s = "11.12.13.0/24" ->
            [ok |-> TRUE, octets |-> <<11, 12, 13, 0>>, prefix |-> 24]
      [] s = "1.2.3.4/32" ->
            [ok |-> TRUE, octets |-> <<1, 2, 3, 4>>, prefix |-> 32]
      [] OTHER -> [ok |-> FALSE, octets |-> <<>>, prefix |-> 0]

\* The integer of an address
AddressInt(o) == ((o[1] * 256 + o[2]) * 256 + o[3]) * 256 + o[4]

\* user_ip in ipaddr.IPv4Network(entry): the address has the network's
\* leading prefix bits
NetworkContains(entry, ip) ==
    LET shift == 2 ^ (32 - Parsed(entry).prefix)
    IN  AddressInt(Parsed(ip).octets) \div shift
          = AddressInt(Parsed(entry).octets) \div shift

\* any([...]) over a list with one entry per network
IsWhitelistedAll(remote_ip, whitelist) ==
    IF ~Parsed(remote_ip).ok \/ (\E i \in DOMAIN whitelist : ~Parsed(whitelist[i]).ok)
    THEN [raised |-> "AddressValueError", value |-> FALSE]
    ELSE [raised |-> "",
          value |-> \A i \in DOMAIN whitelist :
                       NetworkContains(whitelist[i], remote_ip)]

\* is_whitelisted: IPv4Address(remote_ip) and every IPv4Network(entry) are
\* built (the list is built whole before any() looks at it), each raising
\* AddressValueError for a string it cannot parse
IsWhitelisted(remote_ip, whitelist) ==
    IF ~Parsed(remote_ip).ok \/ (\E i \in DOMAIN whitelist : ~Parsed(whitelist[i]).ok)
    THEN [raised |-> "AddressValueError", value |-> FALSE]
    ELSE [raised |-> "",
          value |-> \E i \in DOMAIN whitelist :
                       NetworkContains(whitelist[i], remote_ip)]

\* The lists of at most two entries
EntryLists == {<<>>} \cup {<<e>> : e \in Entries}
                \cup {<<e, f>> : e, f \in Entries}

\* 'whitelist' not in application.settings
NoWhitelist == [set |-> FALSE, list |-> <<>>]

\* application.settings: without or with a 'whitelist'
WhitelistSettings == {NoWhitelist} \cup [set : {TRUE}, list : EntryLists]

\* @whitelisted (the argument is the method), @whitelisted('net') and
\* @whitelisted([...])
Decorations ==
    {[form |-> "plain", list |-> <<>>]}
      \cup {[form |-> "str", list |-> <<e>>] : e \in Entries}
      \cup [form : {"list"}, list : EntryLists]

\* The call of the decorated method: wrapper (no argument) or validate
Whitelisted(dec, settings, remote_ip) ==
    IF dec.form = "plain" /\ ~settings.set
    THEN [raised |-> "ValueError", executed |-> FALSE]
    ELSE LET w == IsWhitelisted(remote_ip,
                    IF dec.form = "plain" THEN settings.list ELSE dec.list)
         IN  IF w.raised # "" THEN [raised |-> w.raised, executed |-> FALSE]
             ELSE IF w.value THEN [raised |-> "", executed |-> TRUE]
             ELSE [raised |-> "HTTPError 403", executed |-> FALSE]

InitWl ==
    /\ SessionOff
    /\ legacy = NoLegacy
    /\ eq = Off /\ attrs = Off /\ mq = Off /\ wk = Off /\ ctl = Off
    /\ \E dec \in Decorations, ip \in RemoteIps :
       \E settings \in
             {NoWhitelist, [set |-> TRUE, list |-> <<"1.2.3.0/24">>]}
               \cup (IF dec.form = "plain" THEN WhitelistSettings ELSE {}) :
          wl = [phase |-> "input", dec |-> dec, settings |-> settings,
                remote_ip |-> ip]

\* A request calls the decorated method
CallWhitelisted ==
    /\ wl.phase = "input"
    /\ wl' = [wl EXCEPT !.phase = "done"]
               @@ Whitelisted(wl.dec, wl.settings, wl.remote_ip)
    /\ UNCHANGED <<session, eq, attrs, mq, wk, ctl>>

SpecWl == InitWl /\ [][CallWhitelisted]_vars

---------------------------------------------------------------------------
(* tinman/application.py: Attributes.  The object is its _attributes dict *)

ATTRIBUTES == "_attributes"

\* The names used on the object: a plain one, the name of one of the class's
\* own methods, and the name of the dict itself
AttrNames == {"a", "set", ATTRIBUTES}

\* Names that normal attribute lookup finds on the class
ClassNames == {"add", "remove", "set", "ATTRIBUTES"}

AttrValues == {Num(1), Num(2)}

\* The dicts assigned to _attributes
AttrDicts == {Map(EmptyDict), Map([k \in {"a"} |-> Num(2)])}

\* __contains__
AttrContains(o, item) == item \in DOMAIN o

\* __setattr__
AttrSetattr(o, item, value) ==
    IF item = ATTRIBUTES THEN [raised |-> "", store |-> value.m]
    ELSE [raised |-> "", store |-> DictSet(o, item, value)]

\* __delattr__
AttrDelattr(o, item) ==
    IF item = ATTRIBUTES \/ item \notin DOMAIN o
    THEN [raised |-> "AttributeError", store |-> o]
    ELSE [raised |-> "", store |-> DictDel(o, item)]

\* obj.item: the instance dict holds _attributes only, then the class is
\* searched, and __getattr__ is called for what neither has
AttrGetattr(o, item) ==
    IF item = ATTRIBUTES THEN Map(o)
    ELSE IF item \in ClassNames THEN [t |-> "method", name |-> item]
    ELSE DictGet(o, item)

\* add() without the test for an existing name
AttrAddOverwriting(o, item, value) == AttrSetattr(o, item, value)

\* add
AttrAdd(o, item, value) ==
    IF item \in DOMAIN o THEN [raised |-> "AttributeError", store |-> o]
    ELSE AttrSetattr(o, item, value)

\* remove
AttrRemove(o, item) ==
    IF item \notin DOMAIN o THEN [raised |-> "AttributeError", store |-> o]
    ELSE AttrDelattr(o, item)

\* set
AttrSet(o, item, value) == AttrSetattr(o, item, value)

\* latest: for every name, its latest successful operation and the value
\* that operation was given
InitAttrs ==
    /\ SessionOff
    /\ legacy = NoLegacy
    /\ eq = Off /\ wl = Off /\ mq = Off /\ wk = Off /\ ctl = Off
    /\ attrs = [phase |-> "on", store |-> EmptyDict, n |-> 0,
                op |-> [name |-> "", item |-> "", raised |-> ""],
                latest |-> [x \in AttrNames |->
                              [kind |-> "none", value |-> None]]]

\* The object after an operation that returned r
AttrsAfter(name, item, value, r) ==
    [phase |-> "on", store |-> r.store, n |-> attrs.n + 1,
     op |-> [name |-> name, item |-> item, raised |-> r.raised],
     latest |-> IF r.raised # "" THEN attrs.latest
                ELSE [attrs.latest EXCEPT
                        ![item] = [kind |-> name, value |-> value]]]

\* The values an operation may give to the name
ValuesFor(item) == IF item = ATTRIBUTES THEN AttrDicts ELSE AttrValues

DoAdd ==
    /\ attrs.phase = "on" /\ attrs.n < MaxSteps
    /\ \E item \in AttrNames : \E value \in ValuesFor(item) :
          attrs' = AttrsAfter("add", item, value,
                              AttrAdd(attrs.store, item, value))
    /\ UNCHANGED <<session, eq, wl, mq, wk, ctl>>

\* obj.set(item, value) or obj.item = value
DoSet ==
    /\ attrs.phase = "on" /\ attrs.n < MaxSteps
    /\ \E item \in AttrNames : \E value \in ValuesFor(item) :
          attrs' = AttrsAfter("set", item, value,
                              AttrSet(attrs.store, item, value))
    /\ UNCHANGED <<session, eq, wl, mq, wk, ctl>>

DoRemove ==
    /\ attrs.phase = "on" /\ attrs.n < MaxSteps
    /\ \E item \in AttrNames :
          attrs' = AttrsAfter("remove", item, None,
                              AttrRemove(attrs.store, item))
    /\ UNCHANGED <<session, eq, wl, mq, wk, ctl>>

\* del obj.item
DoDel ==
    /\ attrs.phase = "on" /\ attrs.n < MaxSteps
    /\ \E item \in AttrNames :
          attrs' = AttrsAfter("del", item, None,
                              AttrDelattr(attrs.store, item))
    /\ UNCHANGED <<session, eq, wl, mq, wk, ctl>>

NextAttrs == DoAdd \/ DoSet \/ DoRemove \/ DoDel

SpecAttrs == InitAttrs /\ [][NextAttrs]_vars

---------------------------------------------------------------------------
(* tinman/handlers/rabbitmq.py.  mq holds the module's globals
   (message_stack, pending_rabbitmq_connection, rabbitmq_connection), the
   channel kept in application.attributes, and the broker's side: the state
   of every connection made and what basic_publish was given.  0 is None,
   connections and their channels are numbered from 1. *)

\* _rabbitmq_is_closed looking at the established connection only
RabbitmqIsClosedNoPending(m) == m.connection = 0

\* _rabbitmq_is_closed
RabbitmqIsClosed(m) == m.connection = 0 /\ m.pending = 0

\* _new_rabbitmq_connection, as called by _connect_to_rabbitmq
ConnectToRabbitmq(m) ==
    IF m.connection # 0 THEN m
    ELSE [m EXCEPT !.pending = m.made + 1, !.made = m.made + 1,
                   !.conns = Append(m.conns, "connecting")]

\* _publish_message
PublishMessage(m, msg) ==
    IF RabbitmqIsClosed(m) \/ m.channel = 0
    THEN [m EXCEPT !.stack = Append(m.stack, msg)]
    ELSE [m EXCEPT !.published = Append(m.published, msg)]

\* while message_stack: self._publish_message(*message_stack.pop())
RECURSIVE DrainStack(_)
DrainStack(m) ==
    IF m.stack = <<>> THEN m
    ELSE DrainStack(PublishMessage(
             [m EXCEPT !.stack = SubSeq(m.stack, 1, Len(m.stack) - 1)],
             m.stack[Len(m.stack)]))

\* The buffered messages are published and stay in the buffer
PublishDeferredKeeping(m) ==
    IF ~RabbitmqIsClosed(m) /\ m.stack # <<>>
    THEN [DrainStack(m) EXCEPT !.stack = m.stack]
    ELSE m

\* _publish_deferred_messages
PublishDeferredMessages(m) ==
    IF ~RabbitmqIsClosed(m) /\ m.stack # <<>> THEN DrainStack(m) ELSE m

InitMq ==
    /\ SessionOff
    /\ legacy = NoLegacy
    /\ eq = Off /\ wl = Off /\ attrs = Off /\ wk = Off /\ ctl = Off
    /\ mq = [phase |-> "on", connection |-> 0, pending |-> 0, channel |-> 0,
             stack |-> <<>>, published |-> <<>>, sent |-> 0, made |-> 0,
             conns |-> <<>>, op |-> "", flushed |-> 0]

\* prepare: a connection is made only when _rabbitmq_is_closed
MqPrepare ==
    /\ mq.phase = "on"
    /\ RabbitmqIsClosed(mq) => mq.made < MaxConns
    /\ mq' = [(IF RabbitmqIsClosed(mq) THEN ConnectToRabbitmq(mq) ELSE mq)
                EXCEPT !.op = "prepare"]
    /\ UNCHANGED <<session, eq, wl, attrs, wk, ctl>>

\* A request handler publishes the next message
MqPublish ==
    /\ mq.phase = "on" /\ mq.sent < MaxMsgs
    /\ mq' = [PublishMessage(mq, mq.sent + 1) EXCEPT
                !.sent = mq.sent + 1, !.op = "publish"]
    /\ UNCHANGED <<session, eq, wl, attrs, wk, ctl>>

\* on_rabbitmq_conn_open: the pending connection is open, a channel is asked
\* for
OnRabbitmqConnOpen ==
    /\ mq.phase = "on"
    /\ \E c \in DOMAIN mq.conns :
          /\ mq.conns[c] = "connecting"
          /\ mq' = [mq EXCEPT !.connection = c, !.pending = 0,
                              !.conns[c] = "channel asked",
                              !.op = "conn_open"]
    /\ UNCHANGED <<session, eq, wl, attrs, wk, ctl>>

\* on_rabbitmq_channel_open
OnRabbitmqChannelOpen ==
    /\ mq.phase = "on"
    /\ \E c \in DOMAIN mq.conns :
          /\ mq.conns[c] = "channel asked"
          /\ LET m == [mq EXCEPT !.channel = c, !.conns[c] = "open"]
             IN  mq' = [PublishDeferredMessages(m) EXCEPT
                          !.op = "channel_open",
                          !.flushed = Len(mq.stack)]
    /\ UNCHANGED <<session, eq, wl, attrs, wk, ctl>>

\* on_rabbitmq_close: the broker closed an open connection
OnRabbitmqClose ==
    /\ mq.phase = "on" /\ mq.made < MaxConns
    /\ \E c \in DOMAIN mq.conns :
          /\ mq.conns[c] \in {"channel asked", "open"}
          /\ LET m == [mq EXCEPT !.connection = 0, !.channel = 0,
                                 !.conns[c] = "closed"]
             IN  mq' = [ConnectToRabbitmq(m) EXCEPT !.op = "close"]
    /\ UNCHANGED <<session, eq, wl, attrs, wk, ctl>>

NextMq ==
    \/ MqPrepare
    \/ MqPublish
    \/ OnRabbitmqConnOpen
    \/ OnRabbitmqChannelOpen
    \/ OnRabbitmqClose

SpecMq == InitMq /\ [][NextMq]_vars

---------------------------------------------------------------------------
(* tinman/session.py: two request handlers of one process, each with its
   own Session object *)

LegacyPair == {"h1", "h2"}

NoLegacyPair ==
    [values |-> EmptyDict,
     obj |-> [h \in LegacyPair |-> NoSession],
     dir |-> [i \in Ids \cup {LegacyNewId(h) : h \in LegacyPair} |-> Absent]]

InitIso ==
    /\ SessionOff
    /\ OthersOff
    /\ legacy = NoLegacyPair

NextIso ==
    \/ \E h \in LegacyPair, c \in Ids \cup {""} : LegacyNew(h, c)
    \/ \E h \in LegacyPair, kv \in FaultAssignments :
          LegacyAssign(h, kv[1], kv[2])
    \/ \E h \in LegacyPair : LegacyDoSave(h)
    \/ Tick

SpecIso == InitIso /\ [][NextIso]_vars

---------------------------------------------------------------------------
(* Worker processes (tinman/controller.py starts one per port) sharing one
   session directory: each holds a FileSessionAdapter of session X, and
   'files' is the directory they share.  save() is open(filename, 'wb'),
   which empties the file, followed by the write of the serialized data. *)

Workers == {"p1", "p2"}

WorkerAssignments == { <<"locale", Str("en")>>, <<"visits", Num(1)>> }

InitWk ==
    /\ SessionOff
    /\ legacy = NoLegacy
    /\ eq = Off /\ wl = Off /\ attrs = Off /\ mq = Off /\ ctl = Off
    /\ \E ser \in SerializerNames :
          wk = [phase |-> "on", n |-> 0,
                op |-> [name |-> "", who |-> ""],
                proc |-> [p \in Workers |->
                            [a |-> NewAdapter("file", ser, "X", Duration),
                             pc |-> "idle",
                             before |-> Absent,
                             got |-> [raised |-> "", data |-> EmptyDict]]]]

\* Handler logic in worker p: self.session.<key> = value
WkAssign(p, key, value) ==
    /\ wk.phase = "on" /\ wk.n < MaxWork
    /\ wk.proc[p].pc = "idle"
    /\ wk' = [wk EXCEPT !.n = wk.n + 1,
                        !.op = [name |-> "setattr", who |-> p],
                        !.proc[p].a = SetAttr(wk.proc[p].a, key, value).a]
    /\ UNCHANGED <<session, eq, wl, attrs, mq, ctl>>

\* FileSessionAdapter.save in worker p, first half: open(filename, 'wb')
\* creates the file or truncates it to zero length
WkSaveOpen(p) ==
    /\ wk.phase = "on" /\ wk.n < MaxWork
    /\ wk.proc[p].pc = "idle"
    /\ files' = [files EXCEPT ![SessionId(wk.proc[p].a)] =
                    File(EmptyBytes, now, EmptyDict)]
    /\ wk' = [wk EXCEPT !.n = wk.n + 1,
                        !.op = [name |-> "open", who |-> p],
                        !.proc[p].pc = "opened",
                        !.proc[p].before = files[SessionId(wk.proc[p].a)]]
    /\ UNCHANGED <<cfg, now, redis, ad, op, steps, minted, sz, req, fault,
                   dirs, legacy, eq, wl, attrs, mq, ctl>>

\* FileSessionAdapter.save in worker p, second half:
\* session_file.write(self._serialize()) and the close of the file
WkSaveWrite(p) ==
    /\ wk.phase = "on"
    /\ wk.proc[p].pc = "opened"
    /\ LET sv == FileSave(wk.proc[p].a, files, now, "")
       IN  /\ files' = sv.files
           /\ wk' = [wk EXCEPT !.op = [name |-> "write", who |-> p],
                               !.proc[p].pc = "idle",
                               !.proc[p].a = sv.a]
    /\ UNCHANGED <<cfg, now, redis, ad, op, steps, minted, sz, req, fault,
                   dirs, legacy, eq, wl, attrs, mq, ctl>>

\* SessionAdapter.load in worker q
WkLoad(q) ==
    /\ wk.phase = "on" /\ wk.n < MaxWork
    /\ wk.proc[q].pc = "idle"
    /\ LET r == Load(wk.proc[q].a, files, redis, "")
       IN  wk' = [wk EXCEPT !.n = wk.n + 1,
                            !.op = [name |-> "load", who |-> q],
                            !.proc[q].a = r.a,
                            !.proc[q].got = [raised |-> r.raised,
                                             data |-> r.a.data]]
    /\ UNCHANGED <<session, eq, wl, attrs, mq, ctl>>

NextWk ==
    \/ \E p \in Workers, kv \in WorkerAssignments : WkAssign(p, kv[1], kv[2])
    \/ \E p \in Workers : WkSaveOpen(p)
    \/ \E p \in Workers : WkSaveWrite(p)
    \/ \E q \in Workers : WkLoad(q)

SpecWk == InitWk /\ [][NextWk]_vars

---------------------------------------------------------------------------
(* The redis client of the session adapters, kept in the attributes of the
   application (tinman/session/redis_adapter.py), next to the client that
   RedisRequestHandler keeps there (tinman/handlers/redis_handlers.py).
   attrs is application.attributes; clients counts the calls of
   _redis_client, added the successful calls of attributes.add. *)

\* RedisSessionAdapter.REDIS
SessionRedis == "session_redis"

\* RedisRequestHandler.REDIS
HandlerRedis == "redis"

\* redis.Redis(**settings): the n-th client object made by one kind of caller
RedisClient(by, n) == [t |-> "client", by |-> by, n |-> n]

\* _setup_redis_client without the test for a registered client
SetupRedisClientAlways(a, app) ==
    LET client == RedisClient("session", app.clients + 1)
        mine   == SetAttr(a, "_redis", client).a
        r      == AttrAdd(app.store, SessionRedis, client)
    IN  [raised |-> r.raised, a |-> mine,
         app |-> [app EXCEPT !.store = r.store,
                             !.clients = app.clients + 1,
                             !.added = IF r.raised = "" THEN app.added + 1
                                       ELSE app.added]]

\* RedisSessionAdapter._setup_redis_client
SetupRedisClient(a, app) ==
    IF ~AttrContains(app.store, SessionRedis)
    THEN LET client == RedisClient("session", app.clients + 1)
             mine   == SetAttr(a, "_redis", client).a
             r      == AttrAdd(app.store, SessionRedis, client)
         IN  [raised |-> r.raised, a |-> mine,
              app |-> [app EXCEPT !.store = r.store,
                                  !.clients = app.clients + 1,
                                  !.added = IF r.raised = ""
                                            THEN app.added + 1
                                            ELSE app.added]]
    ELSE [raised |-> "",
          a |-> SetAttr(a, "_redis", AttrGetattr(app.store, SessionRedis)).a,
          app |-> app]

InitClient ==
    /\ SessionOff
    /\ legacy = NoLegacy
    /\ eq = Off /\ wl = Off /\ mq = Off /\ wk = Off /\ ctl = Off
    /\ attrs = [phase |-> "app", store |-> EmptyDict, clients |-> 0,
                added |-> 0, built |-> 0, handlers |-> 0, raised |-> ""]

\* RedisSessionAdapter.__init__, as get_session_adapter calls it for a
\* request with a session id or without one (sid = "": session_id or
\* self._create_id())
ClientConstruct(x, sid, ser) ==
    /\ attrs.phase = "app"
    /\ attrs.built < MaxBuilt
    /\ LET id == IF sid = "" THEN Uuid(attrs.built + 1) ELSE sid
           r  == SetupRedisClient(NewAdapter("redis", ser, id, Duration),
                                  attrs)
       IN  /\ ad' = [ad EXCEPT ![x] = IF r.raised = "" THEN r.a ELSE @]
           /\ attrs' = [r.app EXCEPT !.built = attrs.built + 1,
                                     !.raised = r.raised]
    /\ UNCHANGED <<cfg, now, files, redis, op, steps, minted, sz, req, fault,
                   dirs, legacy, eq, wl, mq, wk, ctl>>

\* RedisRequestHandler.prepare
RedisHandlerPrepare ==
    /\ attrs.phase = "app"
    /\ LET r == IF ~AttrContains(attrs.store, HandlerRedis)
                THEN AttrAdd(attrs.store, HandlerRedis,
                             RedisClient("handler", attrs.handlers + 1))
                ELSE [raised |-> "", store |-> attrs.store]
       IN  attrs' = [attrs EXCEPT
                       !.store = r.store,
                       !.handlers = IF AttrContains(attrs.store, HandlerRedis)
                                    THEN @ ELSE @ + 1,
                       !.raised = IF r.raised # "" THEN r.raised ELSE @]
    /\ attrs' # attrs
    /\ UNCHANGED <<session, eq, wl, mq, wk, ctl>>

NextClient ==
    \/ \E x \in Adapters, sid \in Ids \cup {""},
          ser \in SerializerNames : ClientConstruct(x, sid, ser)
    \/ RedisHandlerPrepare

SpecClient == InitClient /\ [][NextClient]_vars

---------------------------------------------------------------------------
(* The life of one session: a browser makes one request after another, each
   with the session cookie the first response gave it, from varying remote
   addresses.  A request arrives when the one before it has finished, and
   is handled (prepare, handler logic, on_finish) within one second of the
   clock.  steps counts the requests; they take the two handler objects in
   turn, so that the record of the previous request stays readable. *)

\* The handler object of the n-th request (n = 0 is the first)
Slot(n) == IF n % 2 = 0 THEN "r1" ELSE "r2"

\* The handler object of the request before that of r
Other(r) == IF r = "r1" THEN "r2" ELSE "r1"

AtRest(rq) == rq.pc \in {"idle", "finished", "finish_raised"}

LifeSettings ==
    [name : {ConfigFile, ConfigRedis},
     serializer : SerializerNames,
     duration : {Duration}, cleanup : {TRUE}, cookie : {TRUE},
     directory : {SessionDir}]

InitLife ==
    /\ cfg \in LifeSettings
    /\ now = 0
    /\ files = NoFiles
    /\ redis = NoFiles
    /\ ad = [x \in Adapters |-> NoAdapter]
    /\ op = NoOp
    /\ steps = 0
    /\ minted = 0
    /\ sz = NoSz
    /\ req = NoReqs
    /\ fault = ""
    /\ dirs = {SessionDir}
    /\ legacy = NoLegacy
    /\ OthersOff

\* The next request of the browser arrives: the first without a cookie,
\* the later ones with the id of the session, from any of the addresses
Arrive(ip) ==
    /\ steps < MaxRequests
    /\ \A r \in Reqs : AtRest(req[r])
    /\ steps = 0 => ip = ReqIp("r1")
    /\ LET r == Slot(steps)
           cookie == IF steps = 0 THEN "" ELSE req[Other(r)].sid
       IN  req' = [req EXCEPT ![r] = [NewRequest(r, cookie) EXCEPT !.ip = ip]]
    /\ steps' = steps + 1
    /\ UNCHANGED <<cfg, now, files, redis, ad, op, minted, sz, fault, dirs,
                   legacy, others>>

\* A second passes between two requests; the store drops the keys whose
\* TTL has run out
LifeTick ==
    /\ now < MaxLife
    /\ \A r \in Reqs : AtRest(req[r])
    /\ now' = now + 1
    /\ redis' = RedisPurge(redis, now + 1)
    /\ op' = Call("tick", "", "", "")
    /\ UNCHANGED <<cfg, files, ad, steps, minted, sz, req, fault, dirs,
                   legacy, others>>

NextLife ==
    \/ \E ip \in {ReqIp(r) : r \in Reqs} : Arrive(ip)
    \/ \E r \in Reqs : Prepare(r)
    \/ \E r \in Reqs, kv \in HandlerAssignments :
          HandlerAssign(r, kv[1], kv[2])
    \/ \E r \in Reqs : OnFinish(r)
    \/ LifeTick

SpecLife == InitLife /\ [][NextLife]_vars

---------------------------------------------------------------------------
(* FileSessionAdapter.__init__ and _cleanup in worker processes that share
   the storage directory.  Every request of a worker constructs an adapter
   (handlers/session.py: prepare, _get_session_object, get_session_adapter).
   _cleanup lists the directory once and then, file by file, calls os.stat
   and, for a stale file, os.unlink; the other workers run between these
   calls.  Both calls raise OSError for a file that is no longer there, and
   nothing in __init__ catches it. *)

SweepFiles == {"X", "Y"}

\* os.listdir(self._storage_dir)
Listdir(fs) == {i \in DOMAIN fs : fs[i].present}

\* evaluate + self._duration < time.time()
Stale(f, duration, t) == f.mtime + duration < t

\* __init__ that sweeps only the first time in a process
FileAdapterInitSweepOnce(w, settings, fs) ==
    IF settings.cleanup /\ w.sweeps = 0
    THEN [w EXCEPT !.begun = w.begun + 1, !.sweeps = w.sweeps + 1,
                   !.todo = Listdir(fs),
                   !.pc = IF Listdir(fs) = {} THEN "idle" ELSE "sweeping"]
    ELSE [w EXCEPT !.begun = w.begun + 1, !.pc = "idle"]

\* FileSessionAdapter.__init__ in a worker, up to the directory listing of
\* _cleanup: if self._config.get('cleanup', True): self._cleanup()
FileAdapterInit(w, settings, fs) ==
    IF settings.cleanup
    THEN [w EXCEPT !.begun = w.begun + 1, !.sweeps = w.sweeps + 1,
                   !.todo = Listdir(fs),
                   !.pc = IF Listdir(fs) = {} THEN "idle" ELSE "sweeping"]
    ELSE [w EXCEPT !.begun = w.begun + 1, !.pc = "idle"]

\* The directory holds, for each name, no file, a stale file or a fresh one
InitSweep ==
    /\ cfg = [name |-> ConfigFile, serializer |-> "pickle",
              duration |-> Duration, cleanup |-> TRUE, cookie |-> TRUE,
              directory |-> SessionDir]
    /\ now = Duration + 1
    /\ \E kind \in [SweepFiles -> {"none", "stale", "fresh"}] :
          files = [i \in AllIds |->
                     IF i \notin SweepFiles \/ kind[i] = "none" THEN Absent
                     ELSE File(EmptyBytes,
                               IF kind[i] = "stale" THEN 0 ELSE now,
                               EmptyDict)]
    /\ redis = NoFiles
    /\ ad = [x \in Adapters |-> NoAdapter]
    /\ op = NoOp /\ steps = 0 /\ minted = 0 /\ sz = NoSz /\ req = NoReqs
    /\ fault = "" /\ dirs = {SessionDir}
    /\ legacy = NoLegacy
    /\ eq = Off /\ wl = Off /\ attrs = Off /\ mq = Off /\ ctl = Off
    /\ \E cleanup \in BOOLEAN :
          wk = [phase |-> "sweep",
                settings |-> [cfg EXCEPT !.cleanup = cleanup],
                proc |-> [p \in Workers |->
                            [pc |-> "idle", todo |-> {}, cur |-> "",
                             begun |-> 0, sweeps |-> 0, raised |-> ""]]]

\* A request of worker p constructs its session adapter
SweepBegin(p) ==
    /\ wk.phase = "sweep"
    /\ wk.proc[p].pc \in {"idle", "failed"}
    /\ wk.proc[p].begun < MaxSweeps
    /\ wk' = [wk EXCEPT !.proc[p] =
                 FileAdapterInit(wk.proc[p], wk.settings, files)]
    /\ UNCHANGED <<session, eq, wl, attrs, mq, ctl>>

\* The next filename of the listing: os.stat(file_path) and the test of
\* its age
SweepStat(p) ==
    /\ wk.phase = "sweep"
    /\ wk.proc[p].pc = "sweeping"
    /\ \E i \in wk.proc[p].todo :
          LET w    == wk.proc[p]
              rest == w.todo \ {i}
          IN  wk' = [wk EXCEPT !.proc[p] =
                 IF ~files[i].present
                 THEN [w EXCEPT !.pc = "failed", !.raised = "OSError",
                                !.todo = {}]
                 ELSE IF Stale(files[i], wk.settings.duration, now)
                 THEN [w EXCEPT !.pc = "unlinking", !.cur = i,
                                !.todo = rest]
                 ELSE [w EXCEPT !.todo = rest,
                                !.pc = IF rest = {} THEN "idle"
                                       ELSE "sweeping"]]
    /\ UNCHANGED <<session, eq, wl, attrs, mq, ctl>>

\* os.unlink(file_path)
SweepUnlink(p) ==
    /\ wk.phase = "sweep"
    /\ wk.proc[p].pc = "unlinking"
    /\ LET w == wk.proc[p]
       IN  IF ~files[w.cur].present
           THEN /\ wk' = [wk EXCEPT !.proc[p] =
                            [w EXCEPT !.pc = "failed", !.raised = "OSError",
                                      !.todo = {}, !.cur = ""]]
                /\ files' = files
           ELSE /\ wk' = [wk EXCEPT !.proc[p] =
                            [w EXCEPT !.cur = "",
                                      !.pc = IF w.todo = {} THEN "idle"
                                             ELSE "sweeping"]]
                /\ files' = [files EXCEPT ![w.cur] = Absent]
    /\ UNCHANGED <<cfg, now, redis, ad, op, steps, minted, sz, req, fault,
                   dirs, legacy, eq, wl, attrs, mq, ctl>>

NextSweep ==
    \/ \E p \in Workers : SweepBegin(p)
    \/ \E p \in Workers : SweepStat(p)
    \/ \E p \in Workers : SweepUnlink(p)

SpecSweep == InitSweep /\ [][NextSweep]_vars

---------------------------------------------------------------------------
(* tinman/controller.py: Controller.stop.  The clock counts quarter
   seconds.  A child that has been sent SIGTERM may exit at any time, unless
   it does not heed the signal; a child may also exit by itself. *)

Children == {"c1", "c2"}

\* living_children
LivingChildren(c) == {k \in Children : c.child[k].alive}

\* time.time() - start_time >= MAX_SHUTDOWN_WAIT, with no limit
ShutdownWaitUnlimited(c) == FALSE

\* time.time() - start_time >= MAX_SHUTDOWN_WAIT
ShutdownWaitOver(c) ==
    c.clock - c.start >= MAX_SHUTDOWN_WAIT * SleepsPerSecond

\* stop() has been called
InitCtl ==
    /\ SessionOff
    /\ legacy = NoLegacy
    /\ eq = Off /\ wl = Off /\ attrs = Off /\ mq = Off /\ wk = Off
    /\ \E alive \in [Children -> BOOLEAN], heeds \in [Children -> BOOLEAN] :
          ctl = [phase |-> "on", pc |-> "stop", clock |-> 0, start |-> 0,
                 child |-> [k \in Children |->
                              [alive |-> alive[k], heeds |-> heeds[k],
                               term |-> FALSE, kill |-> FALSE]]]

\* set_state(STATE_STOPPING); child.terminate() for every living child;
\* start_time = time.time()
StopTerminate ==
    /\ ctl.phase = "on" /\ ctl.pc = "stop"
    /\ ctl' = [ctl EXCEPT
                 !.pc = "wait", !.start = ctl.clock,
                 !.child = [k \in Children |->
                              [ctl.child[k] EXCEPT
                                 !.term = ctl.child[k].alive]]]
    /\ UNCHANGED <<session, eq, wl, attrs, mq, wk>>

\* One round of "while self.living_children": the sleep, which lasts one
\* interval or more, and the test of the time waited
StopSleep ==
    /\ ctl.phase = "on" /\ ctl.pc = "wait"
    /\ LivingChildren(ctl) # {}
    /\ ctl.clock < MaxClock
    /\ \E d \in {1, 2} :
          LET c == [ctl EXCEPT !.clock = ctl.clock + d]
          IN  ctl' = [c EXCEPT !.pc = IF ShutdownWaitOver(c) THEN "waited"
                                      ELSE "wait"]
    /\ UNCHANGED <<session, eq, wl, attrs, mq, wk>>

\* The loop ends: no child is alive
StopWaitDone ==
    /\ ctl.phase = "on" /\ ctl.pc = "wait"
    /\ LivingChildren(ctl) = {}
    /\ ctl' = [ctl EXCEPT !.pc = "waited"]
    /\ UNCHANGED <<session, eq, wl, attrs, mq, wk>>

\* os.kill(child.pid, signal.SIGKILL) for every living child (child.pid is
\* never the controller's own pid), then self._stopped()
StopKill ==
    /\ ctl.phase = "on" /\ ctl.pc = "waited"
    /\ ctl' = [ctl EXCEPT
                 !.pc = "stopped",
                 !.child = [k \in Children |->
                              [ctl.child[k] EXCEPT
                                 !.kill = ctl.child[k].alive]]]
    /\ UNCHANGED <<session, eq, wl, attrs, mq, wk>>

\* A child process exits: by itself, on the SIGTERM it heeds, or killed
ChildExit(k) ==
    /\ ctl.phase = "on"
    /\ ctl.child[k].alive
    /\ \/ ~ctl.child[k].term
       \/ ctl.child[k].heeds
       \/ ctl.child[k].kill
    /\ ctl' = [ctl EXCEPT !.child[k].alive = FALSE]
    /\ UNCHANGED <<session, eq, wl, attrs, mq, wk>>

\* The steps of stop()
StopStep == StopTerminate \/ StopSleep \/ StopWaitDone \/ StopKill

NextCtl == StopStep \/ \E k \in Children : ChildExit(k)

\* The controller's process keeps running: a step of stop() that can be
\* taken is taken.  Nothing is assumed of the children.
SpecCtl == InitCtl /\ [][NextCtl]_vars /\ WF_vars(StopStep)

---------------------------------------------------------------------------
(* Properties of the adapters (Spec) *)

\* The stored copy of an adapter's session in its backend
StoredCopy(a) ==
    IF a.kind = "file" THEN files[SessionId(a)] ELSE redis[SessionId(a)]

HasStoredCopy(a) == IdRaises(a) = "" /\ StoredCopy(a).present

SameSession(x, y) ==
    /\ ad[x].alive /\ ad[y].alive
    /\ IdRaises(ad[x]) = "" /\ IdRaises(ad[y]) = ""
    /\ SessionId(ad[x]) = SessionId(ad[y])

Called(name, x) == op.name = name /\ op.who = x

\* C1: when adapter y holds the data it saved (the stored copy was written
\* from y's data) and another adapter x of the same session id and backend
\* calls load(), the call returns and x holds a data mapping equal to y's.
C1_SaveLoadRoundTrip ==
    \A x \in Adapters : \A y \in Adapters \ {x} :
        ( /\ Called("load", x)
          /\ SameSession(x, y)
          /\ StoredCopy(ad[y]).present
          /\ StoredCopy(ad[y]).src = ad[y].data )
        => (op.raised = "" /\ ad[x].data = ad[y].data)

\* C2: right after delete() on an adapter, the adapter's data holds no key
\* and its session has no stored copy (so a new adapter of the same id
\* loads empty data).
C2_DeleteClearsBothTiers ==
    \A x \in Adapters :
        (Called("delete", x) /\ IdRaises(ad[x]) = "")
        => (ad[x].data = EmptyDict /\ ~StoredCopy(ad[x]).present)

\* C4: a call that assigns or deletes an attribute, or load(), leaves every
\* stored copy of both backends as it was; and the keys an adapter holds
\* after load() are exactly the keys of the data last saved for its id, none
\* when there is no stored copy: a mutation another adapter has not saved is
\* not among them.
C4_NoImplicitFlush ==
    /\ [][ ( /\ steps' = steps + 1
             /\ op'.name \in {"setattr", "delattr", "load"} )
           => (files' = files /\ redis' = redis) ]_vars
    /\ [](\A x \in Adapters :
            (Called("load", x) /\ op.raised = "" /\ IdRaises(ad[x]) = "")
            => DOMAIN ad[x].data =
                 IF StoredCopy(ad[x]).present
                 THEN DOMAIN StoredCopy(ad[x]).src ELSE {})

\* C4 witness: x has loaded the session while y, of the same session, holds
\* 'locale' that it has not saved; x does not hold it.
C4_Witness ==
    \E x \in Adapters : \E y \in Adapters \ {x} :
        /\ Called("load", x) /\ op.raised = ""
        /\ SameSession(x, y)
        /\ "locale" \in DOMAIN ad[y].data
        /\ "locale" \notin DOMAIN ad[x].data
        /\ HasStoredCopy(ad[x])

\* C5: the id of every adapter is the id it was constructed with.
C5_IdImmutable ==
    \A x \in Adapters :
        ad[x].alive
        => (IdRaises(ad[x]) = "" /\ SessionId(ad[x]) = ad[x].id0)

C10_SaveRefreshesTTL ==
    /\ \A x \in Adapters :
         (Called("save", x) /\ op.raised = "" /\ ad[x].kind = "redis")
         => /\ redis[SessionId(ad[x])].present
            /\ redis[SessionId(ad[x])].bytes
                 = Serialize(ad[x].ser, ad[x].data)
            /\ RedisTTL(redis, SessionId(ad[x]), now) = cfg.duration
    /\ \A i \in AllIds : redis[i].present => redis[i].expire # -1

\* C10 witness: a save() on a key whose TTL had partly run out.
C10_Witness ==
    \E x \in Adapters :
        /\ Called("save", x) /\ op.raised = "" /\ ad[x].kind = "redis"
        /\ op.ttl >= 1 /\ op.ttl < cfg.duration
        /\ RedisTTL(redis, SessionId(ad[x]), now) = cfg.duration

\* Age of a session file at time t
Age(file, t) == t - file.mtime

\* C15: when a file adapter is constructed (its sweep runs with the
\* configured duration d), a session file whose age is exactly d is removed
\* and a file whose age is d - 1 is kept as it is.
C15_SweepBoundary ==
    [][ (op'.name = "construct" /\ op'.raised = "" /\ cfg.name = ConfigFile)
        => \A i \in AllIds :
             files[i].present
             => /\ (Age(files[i], now) = cfg.duration) => ~files'[i].present
                /\ (Age(files[i], now) = cfg.duration - 1)
                      => files'[i] = files[i] ]_vars

\* C16: every clear() returns; afterwards the adapter's len is 0 and it
\* contains no key, and its attributes store, the session id included, is
\* as it was before the call.
C16_ClearEmptiesData ==
    [][ \A x \in Adapters :
          (op'.name = "clear" /\ op'.who = x /\ steps' = steps + 1)
          => /\ op'.raised = ""
             /\ SessionLen(ad'[x]) = 0
             /\ \A k \in DataKeys : ~Contains(ad'[x], k)
             /\ ad'[x].attrs = ad[x].attrs ]_vars

\* A name with the reserved prefix
Reserved(key) == SubSeq(key, 1, 1) = "_"

\* The keys of an adapter as iteration, keys() and as_dict() give them
DataNames(a) == DOMAIN a.data

\* The views of an adapter's keys agree: len(), contains and the
\* serialized payload show DataNames and nothing else, and no name of
\* DataNames has the reserved prefix
ViewsAgree(a) ==
    /\ SessionLen(a) = Cardinality(DataNames(a))
    /\ \A k \in DataKeys \cup DOMAIN a.attrs \cup {"_data"} :
          Contains(a, k) <=> k \in DataNames(a)
    /\ DOMAIN Serialize(a.ser, a.data).m = DataNames(a)
    /\ \A k \in DataNames(a) : ~Reserved(k)

\* The names assigned and not since deleted, after the call o made on an
\* adapter that had the names `keys`: as the statement has it (a reserved
\* name never changes them), and with the deletion of '_data', which
\* deletes every name
NamesAsStated(keys, o) ==
    IF o.raised # "" \/ Reserved(o.key) THEN keys
    ELSE IF o.name = "setattr" THEN keys \cup {o.key}
    ELSE keys \ {o.key}

NamesAfter(keys, o) ==
    IF o.raised = "" /\ o.name = "delattr" /\ o.key = "_data" THEN {}
    ELSE NamesAsStated(keys, o)

\* C17 as stated: after every assignment or deletion of an attribute, the
\* keys of the adapter are the names without the reserved prefix assigned
\* and not since deleted, in every view, and none has the reserved prefix.
C17_AsStated ==
    [][ \A x \in Adapters :
          ( /\ op'.who = x /\ steps' = steps + 1
            /\ op'.name \in {"setattr", "delattr"} )
          => /\ DataNames(ad'[x]) = NamesAsStated(DataNames(ad[x]), op')
             /\ ViewsAgree(ad'[x]) ]_vars

\* C17: as above, where deleting the reserved name '_data' deletes every
\* data name; and in every state the views of every adapter agree.
C17_DataKeys ==
    /\ [][ \A x \in Adapters :
              ( /\ op'.who = x /\ steps' = steps + 1
                /\ op'.name \in {"setattr", "delattr"} )
              => DataNames(ad'[x]) = NamesAfter(DataNames(ad[x]), op') ]_vars
    /\ [](\A x \in Adapters : ad[x].alive => ViewsAgree(ad[x]))

\* C17 witness: the reserved name '_id' has just been assigned on an
\* adapter that holds 'locale'; 'locale' is its only key.
C17_Witness ==
    \E x \in Adapters :
        /\ Called("setattr", x) /\ op.key = "_id" /\ op.raised = ""
        /\ GetAttr(ad[x], "_id") = Str("Y")
        /\ DataNames(ad[x]) = {"locale"}
        /\ SessionLen(ad[x]) = 1

\* The attribute `key` of adapter a is not set ('_data' always is: it reads
\* as the data store)
NotSet(a, key) ==
    /\ key # "_data"
    /\ IF Reserved(key) THEN key \notin DOMAIN a.attrs
       ELSE key \notin DOMAIN a.data

\* C21: deleting an attribute that is not set, whatever its name, raises
\* and leaves the adapter, its data and its attributes, as it was.
C21_DeleteUnsetRaises ==
    [][ \A x \in Adapters :
          ( /\ op'.name = "delattr" /\ op'.who = x /\ steps' = steps + 1
            /\ NotSet(ad[x], op'.key) )
          => (op'.raised # "" /\ ad'[x] = ad[x]) ]_vars

---------------------------------------------------------------------------
(* Properties of the request integration (SpecReq) *)

\* The stored copy of session id i in the configured backend
StoredFor(i) == IF cfg.name = ConfigFile THEN files[i] ELSE redis[i]

\* Requests r and q carried the same session, both loaded it, and q had
\* prepared and not finished when r's on_finish saved: both loads ran before
\* either save, and q's save is the later one
Overlapped(r, q) ==
    /\ req[r].pc = "finished" /\ req[r].loaded
    /\ req[q].loaded /\ q \in req[r].inflight
    /\ req[r].sid = req[q].sid

\* C3: when two requests of one session overlap and the later on_finish has
\* saved, the stored copy is the serialized in-memory data of that later
\* request, and a key assigned only by the earlier one (the later request
\* neither loaded nor assigned it) is not in the stored data.
C3_LastWriterWins ==
    \A r \in Reqs : \A q \in Reqs \ {r} :
        (Called("on_finish", q) /\ op.raised = "" /\ Overlapped(r, q))
        => LET c == StoredFor(req[q].sid)
           IN  /\ c.present
               /\ c.bytes = Serialize(cfg.serializer, req[q].saved)
               /\ c.src = req[q].saved
               /\ \A k \in req[r].wrote \ (req[q].wrote \cup req[q].held) :
                     k \notin DOMAIN c.src

\* C3 witness: the earlier request assigned 'locale' and saved it, the later
\* one did not, and after the later save 'locale' is not stored.
C3_Witness ==
    \E r \in Reqs : \E q \in Reqs \ {r} :
        /\ Called("on_finish", q) /\ op.raised = "" /\ Overlapped(r, q)
        /\ "locale" \in req[r].wrote /\ "locale" \in DOMAIN req[r].saved
        /\ "locale" \notin req[q].wrote
        /\ "locale" \notin DOMAIN StoredFor(req[q].sid).src

\* C7: every call of on_finish returns, has called save() once, and leaves
\* the stored session with last_request_uri = the request's URI and
\* last_request_at = the time of the call.
C7_FinishAlwaysSaves ==
    \A r \in Reqs :
        Called("on_finish", r)
        => /\ op.raised = ""
           /\ req[r].saves = 1
           /\ StoredFor(req[r].sid).present
           /\ DictGet(StoredFor(req[r].sid).src, "last_request_uri")
                = Str(req[r].uri)
           /\ DictGet(StoredFor(req[r].sid).src, "last_request_at")
                = Str(ToString(now))

\* C8: when prepare returns, the response cookie holds the session id and
\* expires at the time of prepare plus the duration; the cookie is only set
\* once load() has returned, and it is set before any handler logic runs.
C8_CookieRefreshed ==
    \A r \in Reqs :
        /\ (Called("prepare", r) /\ op.raised = "")
           => /\ req[r].pc = "prepared"
              /\ req[r].cookieOut
                   = SetCookie(SessionId(req[r].session),
                               req[r].at + cfg.duration)
              /\ req[r].at = now
        /\ req[r].cookieOut.set => req[r].loaded
        /\ (req[r].wrote # {} \/ req[r].pc = "raised") => req[r].cookieOut.set

\* C8 witness: prepare has returned for a request that carried the cookie of
\* session X, later than time 0, and the other request, which carried no
\* cookie, has its cookie set to a new id.
C8_Witness ==
    \E r \in Reqs : \E q \in Reqs \ {r} :
        /\ Called("prepare", r) /\ op.raised = "" /\ now > 0
        /\ req[r].cookie = "X" /\ req[r].cookieOut.value = "X"
        /\ req[q].cookie = "" /\ req[q].cookieOut.set
        /\ req[q].cookieOut.value = Uuid(1)

---------------------------------------------------------------------------
(* Properties of the serializers (SpecSer) *)

ClaimedTypes == {"str", "num", "bool", "dt"}

\* C9: for a mapping whose values are strings, numbers, booleans or
\* timestamps, deserialize(serialize(mapping)) returns a mapping equal to
\* the one given.
C9_SerializerRoundTrip ==
    (sz.phase = "done" /\ \A k \in DOMAIN sz.input : sz.input[k].t \in ClaimedTypes)
    => (sz.raised = "" /\ sz.out = sz.input)

\* A mapping that carries the marker type = 'datetime'
HasDatetimeMarker(v) ==
    v.t = "map" /\ DictGet(v.m, "type") = Str("datetime")

\* C18: when no value of the mapping is a timestamp or carries the marker
\* type = 'datetime', deserialize(serialize(mapping)) returns the mapping
\* as given; whenever it returns, every value that is a mapping without
\* the marker (with another 'type', or with no 'type' key) is unchanged and
\* only values that carried the marker have become timestamps.
C18_TagNonInterference ==
    sz.phase = "done"
    => /\ (\A k \in DOMAIN sz.input :
              sz.input[k].t # "dt" /\ ~HasDatetimeMarker(sz.input[k]))
           => (sz.raised = "" /\ sz.out = sz.input)
       /\ sz.raised = ""
           => \A k \in DOMAIN sz.input :
                /\ (sz.input[k].t = "map" /\ ~HasDatetimeMarker(sz.input[k]))
                     => sz.out[k] = sz.input[k]
                /\ sz.out[k].t = "dt" => HasDatetimeMarker(sz.input[k])

\* C18 witness: a round trip that left a mapping with type = 'other' as it
\* was and made a timestamp of a mapping with type = 'datetime'.
C18_Witness ==
    /\ sz.phase = "done" /\ sz.raised = ""
    /\ \E k \in DOMAIN sz.input :
          /\ sz.input[k] = Map([type |-> Str("other")])
          /\ sz.out[k] = sz.input[k]
    /\ \E k \in DOMAIN sz.input :
          /\ HasDatetimeMarker(sz.input[k])
          /\ sz.out[k] = Dt(1, 0)

---------------------------------------------------------------------------
(* Properties under storage failures (SpecFault) *)

\* The session file of a Session object of tinman/session.py
LegacyFile(h) == legacy.dir[legacy.obj[h].id]

\* save() of an adapter returned and its stored copy is the serialized data
\* the adapter holds
AdapterSavePersists(x) ==
    (Called("save", x) /\ op.raised = "")
    => /\ StoredCopy(ad[x]).present
       /\ StoredCopy(ad[x]).bytes = Serialize(ad[x].ser, ad[x].data)

\* C11: whenever save() has returned normally, on a session adapter or on a
\* Session object, the stored copy holds the serialized data of the object;
\* a write that fails is raised to the caller.
C11_SaveFailsLoudly ==
    /\ \A x \in Adapters : AdapterSavePersists(x)
    /\ \A h \in LegacyHandlers :
         (Called("legacy_save", h) /\ op.raised = "")
         => /\ LegacyFile(h).present
            /\ LegacyFile(h).bytes = Bytes("pickle", LegacyValues(legacy, h))

\* C13: load() on an adapter whose stored bytes no serializer can read
\* returns and leaves the adapter's data empty, as for a missing copy.
C13_CorruptLoadsEmpty ==
    \A x \in Adapters :
        ( /\ Called("load", x) /\ IdRaises(ad[x]) = ""
          /\ StoredCopy(ad[x]).present
          /\ StoredCopy(ad[x]).bytes = Garbage )
        => (op.raised = "" /\ ad[x].data = EmptyDict)

\* C14: a delete() called on an adapter whose id has no stored copy (also
\* the second of two delete() calls) returns, and afterwards the id has no
\* stored copy and the adapter's data is empty; a Session.clear() called
\* when the session has no file, or was cleared before, returns.
C14_DeleteIdempotent ==
    [][ /\ \A x \in Adapters :
             ( /\ op'.name = "delete" /\ op'.who = x /\ steps' = steps + 1
               /\ IdRaises(ad[x]) = "" /\ ~StoredCopy(ad[x]).present )
             => /\ op'.raised = ""
                /\ ad'[x].data = EmptyDict
                /\ ~StoredCopy(ad[x])'.present
        /\ \A h \in LegacyHandlers :
             ( /\ op'.name = "legacy_clear" /\ op'.who = h
               /\ steps' = steps + 1
               /\ (~legacy.obj[h].hasId \/ ~LegacyFile(h).present) )
             => op'.raised = "" ]_vars

\* The same stored state as serializer s writes it: only the byte shape of
\* the serialized mappings differs
Recode(store, s) ==
    [i \in DOMAIN store |->
        IF store[i].present /\ store[i].bytes \notin {EmptyBytes, Garbage}
        THEN [store[i] EXCEPT !.bytes.fmt = s]
        ELSE store[i]]

\* C19: every load() and save() has the outcome that the same call has
\* with any other serializer configured, over the same stored state: both
\* raise or both return, the adapter holds the same data afterwards, and
\* the stored states are again the same up to the byte shape.
C19_SerializersInterchangeable ==
    [][ \A x \in Adapters : \A s \in SerializerNames :
          ( /\ op'.who = x /\ steps' = steps + 1
            /\ op'.name \in {"load", "save"} )
          => LET a == [ad[x] EXCEPT !.ser = s]
                 fs == Recode(files, s)
                 rs == Recode(redis, s)
                 alt == IF op'.name = "load" THEN Load(a, fs, rs, fault)
                        ELSE Save(a, fs, rs, now, fault)
             IN  /\ (alt.raised = "") <=> (op'.raised = "")
                 /\ alt.a.data = ad'[x].data
                 /\ alt.files = Recode(files', s)
                 /\ alt.redis = Recode(redis', s) ]_vars

---------------------------------------------------------------------------
(* Properties of the request integration under storage failures            *)
(* (SpecReqFault)                                                          *)

\* The backend the settings name cannot be reached
BackendDown ==
    \/ cfg.name = ConfigFile /\ fault = "open"
    \/ cfg.name = ConfigRedis /\ fault = "conn"

\* C12: a prepare that ran while the configured backend was unavailable has
\* returned, the request is prepared for the handler logic, and the session
\* it holds was loaded empty.
C12_OutageLoadsEmpty ==
    \A r \in Reqs :
        (Called("prepare", r) /\ BackendDown)
        => /\ op.raised = ""
           /\ req[r].pc = "prepared"
           /\ req[r].loaded /\ req[r].held = {}

---------------------------------------------------------------------------
(* Properties of adapter construction (SpecCfg) *)

\* The adapter name is missing or names no adapter
BadName == cfg.name \notin {ConfigFile, ConfigRedis}

\* A construction that raised a configuration error: no adapter is returned
\* and the backends and the filesystem are as they were
Refused(x) ==
    /\ op'.raised = "ConfigurationException"
    /\ ~ad'[x].alive
    /\ files' = files /\ redis' = redis /\ dirs' = dirs

\* C20 as stated: a construction with an adapter name that is missing or
\* unknown, or for the file backend with no directory setting, raises a
\* configuration error, returns no adapter and touches no storage.
C20_AsStated ==
    [][ \A x \in Adapters :
          ( /\ op'.name = "construct" /\ op'.who = x
            /\ (BadName \/ (cfg.name = ConfigFile /\ cfg.directory = Unset)) )
          => Refused(x) ]_vars

\* C20: a construction with an adapter name that is missing or unknown, or
\* for the file backend with a directory setting that names no existing
\* directory, raises a configuration error, returns no adapter and touches
\* no storage; every other construction returns an adapter, and for the
\* file backend with no directory setting it is the default directory,
\* created when missing, that the adapter uses.
C20_ConfigErrors ==
    [][ \A x \in Adapters :
          (op'.name = "construct" /\ op'.who = x)
          => IF \/ BadName
                \/ /\ cfg.name = ConfigFile /\ cfg.directory # Unset
                   /\ cfg.directory \notin dirs
             THEN Refused(x)
             ELSE /\ op'.raised = "" /\ ad'[x].alive
                  /\ (cfg.name = ConfigFile /\ cfg.directory = Unset)
                       => dirs' = dirs \cup {DefaultPath}
                  /\ (cfg.name # ConfigFile \/ cfg.directory # Unset)
                       => dirs' = dirs ]_vars

\* C20 witness: a construction for the file backend was refused because the
\* configured directory does not exist.
C20_Witness ==
    \E x \in Adapters :
        /\ Called("construct", x) /\ op.raised = "ConfigurationException"
        /\ cfg.name = ConfigFile /\ cfg.directory = MissingDir
        /\ MissingDir \notin dirs
        /\ ~ad[x].alive

---------------------------------------------------------------------------
(* Frame of save() (Spec) *)

\* C29: save() leaves the adapter's in-memory data exactly as it was before
\* the call: the same keys, and every value, timestamps included, unchanged.
C29_SaveKeepsData ==
    [][ \A x \in Adapters :
          (op'.name = "save" /\ op'.who = x /\ steps' = steps + 1)
          => ad'[x].data = ad[x].data ]_vars

---------------------------------------------------------------------------
(* Properties of the log-out flow (SpecReq) *)

\* C27: once _clear_session has invoked delete() on a request's session
\* adapter, the on_finish hook of that request does not invoke save() on it,
\* and after on_finish no stored copy exists for the deleted session id.
C27_NoSaveAfterDelete ==
    [][ \A r \in Reqs :
          ( /\ Called("_clear_session", r)
            /\ op'.name = "on_finish" /\ op'.who = r )
          => ( /\ req'[r].saves = req[r].saves
               /\ ~(IF cfg.name = ConfigFile THEN files'[req[r].sid]
                    ELSE redis'[req[r].sid]).present ) ]_vars

---------------------------------------------------------------------------
(* Properties of container equality (SpecEq) *)

\* C22: for two container objects a and b, a == b and b == a both return,
\* they return the same value, and a == b is true exactly when a and b are
\* of the same class and hold identical data mappings.
C22_EqualityByClassAndData ==
    eq.phase = "done"
    => /\ eq.ab.raised = "" /\ eq.ba.raised = ""
       /\ eq.ab.value <=> (eq.a.cls = eq.b.cls /\ eq.a.data = eq.b.data)
       /\ eq.ab.value <=> eq.ba.value

---------------------------------------------------------------------------
(* Properties of the whitelist decorator (SpecWl) *)

\* The whitelist in force for the call: the decorator's argument when one
\* was given, otherwise the application's setting
Effective == IF wl.dec.form = "plain" THEN wl.settings.list ELSE wl.dec.list

\* The remote address lies within at least one network of the list
LiesWithin(ip, list) ==
    /\ Parsed(ip).ok
    /\ \E i \in DOMAIN list :
          /\ Parsed(list[i]).ok
          /\ \E d \in {2 ^ (32 - Parsed(list[i]).prefix)} :
                AddressInt(Parsed(ip).octets) \div d
                  = AddressInt(Parsed(list[i]).octets) \div d

\* Every string involved is one ipaddr can parse
Parseable ==
    Parsed(wl.remote_ip).ok /\ \A i \in DOMAIN Effective : Parsed(Effective[i]).ok

---------------------------------------------------------------------------
(* Properties of the application attributes (SpecAttrs) *)

\* C24: add(name, value) for a name that is already set raises
\* AttributeError and leaves the existing value unchanged, and remove(name)
\* for a name that is not set raises AttributeError and leaves the object
\* unchanged.
C24_AddRemoveRaise ==
    [][ /\ ( /\ attrs'.n = attrs.n + 1 /\ attrs'.op.name = "add"
             /\ attrs'.op.item \in DOMAIN attrs.store )
          => ( /\ attrs'.op.raised = "AttributeError"
               /\ attrs'.store = attrs.store )
        /\ ( /\ attrs'.n = attrs.n + 1 /\ attrs'.op.name = "remove"
             /\ attrs'.op.item \notin DOMAIN attrs.store )
          => ( /\ attrs'.op.raised = "AttributeError"
               /\ attrs'.store = attrs.store ) ]_vars

\* add() was called for a name holding a value, raised, and the value is
\* still there
C24_Witness ==
    /\ attrs.phase = "on"
    /\ attrs.op.name = "add" /\ attrs.op.raised = "AttributeError"
    /\ attrs.op.item = "a" /\ attrs.latest["a"].kind = "set"
    /\ attrs.store["a"] = attrs.latest["a"].value

\* C25: after any sequence of add, set, remove and del operations, a name
\* is contained exactly when its latest successful operation was an add or a
\* set, and reading a contained name returns the value of that add or set.
C25_LatestOperationDecides ==
    attrs.phase = "on"
    => \A x \in AttrNames :
          /\ AttrContains(attrs.store, x)
               <=> attrs.latest[x].kind \in {"add", "set"}
          /\ AttrContains(attrs.store, x)
               => AttrGetattr(attrs.store, x) = attrs.latest[x].value

---------------------------------------------------------------------------
(* Properties of the deferred publishing (SpecMq) *)

\* How many times msg occurs in the sequence
Occurrences(seq, msg) == Cardinality({i \in DOMAIN seq : seq[i] = msg})

\* The connection is closed or no channel is open
NoOpenChannel ==
    \/ mq.connection = 0
    \/ mq.channel = 0
    \/ mq.conns[mq.connection] # "open"

---------------------------------------------------------------------------
(* Properties of the Session objects of one process (SpecIso) *)

\* The two Session objects exist and have different session ids
Distinct(h, g) ==
    /\ h # g
    /\ legacy.obj[h].alive /\ legacy.obj[h].hasId
    /\ legacy.obj[g].alive /\ legacy.obj[g].hasId
    /\ legacy.obj[h].id # legacy.obj[g].id

\* C28: a key assigned through one Session object is not readable through
\* another object that has a different session id (the assignment leaves
\* what the other object reads as it was), and the save() of an object
\* persists the values that object reads.
C28_SessionsIsolated ==
    [][ \A h, g \in LegacyPair :
          /\ ( /\ Distinct(h, g)
               /\ op'.name = "legacy_setattr" /\ op'.who = h
               /\ steps' = steps + 1 )
             => LegacyValues(legacy', g) = LegacyValues(legacy, g)
          /\ ( /\ Distinct(h, g)
               /\ op'.name = "legacy_save" /\ op'.who = g
               /\ steps' = steps + 1 )
             => legacy'.dir[legacy.obj[g].id].src = LegacyValues(legacy, g)
      ]_vars

---------------------------------------------------------------------------
(* Properties of the worker processes (SpecWk) *)

\* The data stored before worker p's save() opened the file
StoredBefore(p) ==
    IF wk.proc[p].before.present THEN wk.proc[p].before.src ELSE EmptyDict

\* C30: a load() of a session id that runs in one worker while the save() of
\* the same id is under way in another returns, with either the data stored
\* before that save or the data being saved, never with empty or partial
\* data.
C30_ConcurrentLoadSeesWholeData ==
    wk.phase = "on"
    => \A q, p \in Workers :
          ( /\ wk.op = [name |-> "load", who |-> q]
            /\ p # q /\ wk.proc[p].pc = "opened" )
          => ( /\ wk.proc[q].got.raised = ""
               /\ wk.proc[q].got.data
                    \in {StoredBefore(p), wk.proc[p].a.data} )

\* C34: the messages buffered while no channel was open are published,
\* once the channel opens, in the order in which they were submitted.
C34_DeferredInOrder ==
    [][ (mq'.op = "channel_open" /\ mq'.conns # mq.conns)
          => mq'.published = mq.published \o mq.stack ]_vars

\* The connection attempts that are under way
Outstanding == {c \in DOMAIN mq.conns : mq.conns[c] = "connecting"}

---------------------------------------------------------------------------
(* Properties of Controller.stop (SpecCtl) *)

---------------------------------------------------------------------------
(* Properties of the shared redis client (SpecClient) *)

\* C32: within one application, after any number of constructions of redis
\* session adapters, exactly one client has been created (by the first
\* construction), it has been added once to the application attributes,
\* every adapter uses that client, and no construction created a second
\* client or raised on adding it.
C32_OneSharedClient ==
    attrs.phase = "app" =>
        /\ attrs.raised = ""
        /\ attrs.clients = (IF attrs.built > 0 THEN 1 ELSE 0)
        /\ attrs.added = attrs.clients
        /\ attrs.built > 0 =>
              /\ AttrContains(attrs.store, SessionRedis)
              /\ attrs.store[SessionRedis] = RedisClient("session", 1)
        /\ \A x \in Adapters :
              ad[x].alive =>
                 /\ "_redis" \in DOMAIN ad[x].attrs
                 /\ ad[x].attrs["_redis"] = attrs.store[SessionRedis]

\* Three adapters have been constructed, two of them for different
\* sessions are in use, and the request handlers' own client is registered
C32_Witness ==
    /\ attrs.phase = "app"
    /\ attrs.built = MaxBuilt
    /\ AttrContains(attrs.store, HandlerRedis)
    /\ ad["a"].alive /\ ad["b"].alive
    /\ SessionId(ad["a"]) # SessionId(ad["b"])
    /\ ad["a"].attrs["_redis"] = ad["b"].attrs["_redis"]

---------------------------------------------------------------------------
(* Properties of the stale sweep in several workers (SpecSweep) *)

\* C35: the construction of a file session adapter never fails because
\* another worker removed a file of the shared directory between this
\* adapter's listing of the directory and its stat or unlink of the file.
C35_ConstructionNeverFails ==
    wk.phase = "sweep" => \A p \in Workers : wk.proc[p].raised = ""

\* C36 as stated: within one process the stale sweep runs at most once,
\* however many adapters the process constructs.
C36_AsStated ==
    wk.phase = "sweep" => \A p \in Workers : wk.proc[p].sweeps <= 1

\* C36: the stale sweep runs at every construction of a file session
\* adapter whose configuration has cleanup on (the default), hence once for
\* every request the process handles, and at no construction with cleanup
\* off.
C36_SweepAtEveryConstruction ==
    wk.phase = "sweep" =>
        \A p \in Workers :
            wk.proc[p].sweeps =
                (IF wk.settings.cleanup THEN wk.proc[p].begun ELSE 0)

\* A worker has constructed two adapters and has completed its second sweep
C36_Witness ==
    /\ wk.phase = "sweep"
    /\ \E p \in Workers :
          /\ wk.proc[p].begun = 2 /\ wk.proc[p].sweeps = 2
          /\ wk.proc[p].pc = "idle" /\ wk.proc[p].raised = ""
          /\ \E i \in SweepFiles : files[i].present

---------------------------------------------------------------------------
(* Properties of the life of a session (SpecLife) *)

\* C31: a request that begins less than `duration` seconds after the
\* previous request on the session completed its save finds the stored
\* copy in place, before and after the stale sweep of its own adapter,
\* and its load() returns the data saved by the previous request.
C31_LoadReturnsPreviousSave ==
    [][ \A r \in Reqs :
          ( /\ steps >= 2
            /\ req[r].pc = "new" /\ req'[r].pc # "new"
            /\ req[Other(r)].pc = "finished"
            /\ now < req[Other(r)].at + cfg.duration )
          => LET q == Other(r)
                 g == GetSessionAdapter(cfg, req[r].cookie, files, now, dirs)
                 l == Load(g.a, g.files, redis, fault)
             IN  /\ StoredFor(req[q].sid).present
                 /\ (IF cfg.name = ConfigFile THEN files'
                     ELSE redis')[req[q].sid].present
                 /\ l.raised = ""
                 /\ l.a.data = req[q].saved
                 /\ req'[r].loaded ]_vars

\* C33: across the requests on one session, from varying remote addresses
\* and with handler logic that does not touch ip_address, the stored
\* ip_address stays that of the first request.
C33_FirstIpKept ==
    steps >= 1 =>
        \A i \in AllIds :
            StoredFor(i).present =>
                /\ "ip_address" \in DOMAIN StoredFor(i).src
                /\ StoredFor(i).src["ip_address"] = Str(ReqIp("r1"))

====
